---- MODULE Spec2Model ----
(***************************************************************************)
(* Landscape-dynamics engine of hexi-explorable: the hexagonal grid        *)
(* (HexGrid / HexCell, src/js/fog.js), its elevation field, topology and   *)
(* pixel geometry, and the fog overlay's writes to the cells' mirror flag. *)
(*                                                                         *)
(* Numbers.  Elevations are integers (whole elevation levels).  Pixel      *)
(* coordinates are fixed-point integers in 1/100 pixel (PX units per       *)
(* pixel).  Force vectors are fixed-point integers in 1/1000.              *)
(***************************************************************************)
EXTENDS Integers, Sequences, FiniteSets, TLC

VARIABLES
    cols,        \* HexGrid.cols
    rows,        \* HexGrid.rows
    sideLength,  \* HexGrid.sideLength, in whole pixels
    cells,       \* HexGrid.cells: Map "col,row" -> HexCell
    visibility,  \* FogSystem.visibility: Map key -> level
    ball,        \* the Ball bound to the grid
    now,         \* Date.now(), in milliseconds
    impulses,    \* the impulses the scenario has still to apply to the ball
    frames,      \* the frames the driver has still to run, or Unbounded
    act1,        \* Act 1's own fields: transient timer, last move, phase, counts
    act5,        \* Act 5's own fields: budget, phase, crisis round, selection
    app,         \* the application: currentAct, the acts created and running
    lastOp       \* the last call made on the grid, with its arguments and result

vars ==
    <<cols, rows, sideLength, cells, visibility, ball, now, impulses, frames,
      act1, act5, app, lastOp>>

gridShape == <<cols, rows, sideLength>>

marker == <<ball, now, impulses, frames>>

\* what the operations of the grid, the overlay, the ball and Act 1 never touch
session == <<act5, app>>

----------------------------------------------------------------------------
(* Bounds of the model *)

\* largest grid of the topology and geometry specifications
MaxCols == 4
MaxRows == 4

\* grids of the specifications that edit terrain
OpGridSizes == {<<3, 1>>, <<1, 2>>}

\* arguments handed to setElevation, modifyElevation, createValley, applyErosion
ElevInputs == {-5, 4}
Deltas == {-4, 7}
Depths == {-5, -2}
Intensities == {0, 1}

\* side lengths handed to the constructor (25 is the default, 35 is Act 2 / Act 5)
SideLengths == {25, 35}

\* the grid the marker specifications run on
MarkerGrid == <<2, 1>>

\* dt handed to update, in 1/100 ms: the default 16.67 ms, 100 ms, 300 ms
DtInputs == {1667, 10000, 30000}

\* the wall-clock time that passes between two update calls, in ms, and the
\* reading at which the clock of the model stops; the clock is read from the
\* instant of the latest moveTo and MaxNow is past every duration
ClockSteps == {150}
MaxNow == 450

\* the length, in frames, of a session of the driver that ends
MaxFrames == 2

\* the length, in frames, of a session long enough for the metrics to be
\* computed (they need METRIC_SAMPLES positions)
MetricFrames == 32

\* where a ball is put down on a flat cell, as offsets from the cell's
\* centre in 1/100 pixel: on the centre, 3 pixels beside it, and a point
\* about 10 pixels away
SettleOffsets == {<<0, 0>>, <<300, 0>>, <<175, 1000>>}

\* the longest period looked for in the motion of a ball, in frames
MaxPeriod == 14

\* the impulses the scenario applies to a ball between two bindings, each
\* once, in 1/1000 pixel per frame
Impulses == {<<12000, -16000>>}

\* cells and durations (in ms) handed to moveTo
\* Act 1: the grid, the valley centre and the start cell of the model; the
\* time between two animation frames in ms (a slow frame, and a frame after
\* the page was in the background); the frames of a session
Act1Grid == <<4, 1>>
Act1Valley == <<0, 0>>
Act1Start == <<3, 0>>
Act1Steps == {450, 1500}
Act1Frames == 5

\* the speed specification: impulses whose sum with the velocity is not a round
\* multiple of the cap, noise levels in 1/100 (none, Act 4's 0.05, full), the
\* frames of a session
SpeedImpulses == {<<12000, -16000>>, <<8000, 100>>}
NoiseLevels == {0, 5, 100}
SpeedFrames == 2

\* the frames of a session within which a move is started
MoveBy == 2

\* the frames of a session of Act 1 at a steady rate, and their spacing in ms
PhaseFrames == 7
PhaseSteps == {450}

\* Act 5 on a row of two cells, the valley and the ball on the first; the
\* impulses Math.random() can give the shocks of a session; the purchases of
\* a session
Act5Grid == <<2, 1>>
Act5Start == <<0, 0>>
Act5Shocks == {<<3000, 0>>, <<0, 4000>>, <<-5000, 0>>, <<0, -7000>>}
MaxPurchases == 7

MoveTargets == {<<1, 0>>}
Durations == {300}

----------------------------------------------------------------------------
(* JavaScript arithmetic *)

Max(a, b) == IF a >= b THEN a ELSE b

Min(a, b) == IF a <= b THEN a ELSE b

\* a % n of JavaScript: the sign of the result is the sign of a
JsMod(a, n) == IF a >= 0 THEN a % n ELSE -((-a) % n)

\* a / b rounded toward zero (fixed-point division, symmetric in the sign of a)
Quot(a, b) == IF a >= 0 THEN a \div b ELSE -((-a) \div b)

\* Math.round(a / b) for b > 0: floor(a/b + 1/2)
RoundDiv(a, b) == (2 * a + b) \div (2 * b)

\* F applied to the value of v, which is computed once however often F
\* reads it (a const of the source)
Apply(F(_), v) == CHOOSE r \in {F(x) : x \in {v}} : TRUE

RECURSIVE SqrtSearch(_, _, _)
SqrtSearch(n, lo, hi) ==
    IF lo >= hi THEN lo
    ELSE Apply(LAMBDA mid : IF mid * mid <= n THEN SqrtSearch(n, mid, hi)
                            ELSE SqrtSearch(n, lo, mid - 1),
               (lo + hi + 1) \div 2)

\* floor of the square root (Math.sqrt / Math.hypot in fixed point)
ISqrt(n) == Apply(LAMBDA v : SqrtSearch(v, 0, Min(v, 46340)), n)

----------------------------------------------------------------------------
(* HexCell and the cell map *)

\* the absent result of a lookup (null)
Null == [null |-> TRUE]

\* the value of a property an object does not have; an integer no coordinate
\* takes, so that keys built from it compare with keys built from numbers
Undefined == -1000

\* the outcome of calling a method the object does not define
TypeError == "TypeError"

NoError == "none"

ELEV_MIN == -3
ELEV_MAX == 3

HexCell(col, row, elevation) ==
    [col |-> col, row |-> row, elevation |-> elevation,
     isRuin |-> FALSE, isRevealed |-> TRUE, isHighlighted |-> FALSE]

\* _initGrid: one HexCell per (col, row), elevation 0
InitGrid(nc, nr) ==
    [k \in (0 .. nc - 1) \X (0 .. nr - 1) |-> HexCell(k[1], k[2], 0)]

getHex(g, col, row) ==
    IF <<col, row>> \in DOMAIN g THEN g[<<col, row>>] ELSE Null

getAllCells(g) == DOMAIN g

clampElevation(val) == Max(ELEV_MIN, Min(ELEV_MAX, val))

\* setElevation without the isRuin test
setElevation_ignoresRuin(g, col, row, val) ==
    IF <<col, row>> \in DOMAIN g
    THEN [g EXCEPT ![<<col, row>>].elevation = clampElevation(val)]
    ELSE g

\* setElevation that clamps the coordinates into the grid instead of ignoring them
setElevation_clampsCoords(g, col, row, val) ==
    LET ks == DOMAIN g
        maxc == CHOOSE c \in {k[1] : k \in ks} : \A k \in ks : k[1] <= c
        maxr == CHOOSE r \in {k[2] : k \in ks} : \A k \in ks : k[2] <= r
        k0 == <<Max(0, Min(maxc, col)), Max(0, Min(maxr, row))>>
    IN  IF ~g[k0].isRuin
        THEN [g EXCEPT ![k0].elevation = clampElevation(val)]
        ELSE g

setElevation(g, col, row, val) ==
    LET cell == getHex(g, col, row)
    IN  IF cell # Null /\ ~cell.isRuin
        THEN [g EXCEPT ![<<col, row>>].elevation = clampElevation(val)]
        ELSE g

modifyElevation(g, col, row, delta) ==
    LET cell == getHex(g, col, row)
    IN  IF cell # Null /\ ~cell.isRuin
        THEN [g EXCEPT ![<<col, row>>].elevation =
                            clampElevation(cell.elevation + delta)]
        ELSE g

----------------------------------------------------------------------------
(* Topology *)

\* the even-row offsets used for every row
NeighborDirs_noParity(row) ==
    << <<1, 0>>, <<0, -1>>, <<-1, -1>>, <<-1, 0>>, <<-1, 1>>, <<0, 1>> >>

\* E, NE, NW, W, SW, SE as (dc, dr); odd rows are shifted right
NeighborDirs(row) ==
    IF JsMod(row, 2) = 1
    THEN << <<1, 0>>, <<1, -1>>, <<0, -1>>, <<-1, 0>>, <<0, 1>>, <<1, 1>> >>
    ELSE << <<1, 0>>, <<0, -1>>, <<-1, -1>>, <<-1, 0>>, <<-1, 1>>, <<0, 1>> >>

InGrid(g, k) == k \in DOMAIN g

\* getNeighbors that leaves ruins out
getNeighbors_skipRuins(g, col, row) ==
    LET dirs == NeighborDirs(row)
        cand == [i \in 1 .. 6 |-> <<col + dirs[i][1], row + dirs[i][2]>>]
    IN  SelectSeq(cand, LAMBDA k : InGrid(g, k) /\ ~g[k].isRuin)

\* the list of neighbouring cells, as their (col, row), in direction order
getNeighbors(g, col, row) ==
    LET dirs == NeighborDirs(row)
        cand == [i \in 1 .. 6 |-> <<col + dirs[i][1], row + dirs[i][2]>>]
    IN  SelectSeq(cand, LAMBDA k : InGrid(g, k))

SeqToSet(s) == {s[i] : i \in 1 .. Len(s)}

RECURSIVE valleyNeighbors(_, _, _, _)
valleyNeighbors(g, nbrs, i, depth) ==
    IF i > Len(nbrs) THEN g
    ELSE LET n == g[nbrs[i]]
             g1 == IF ~n.isRuin
                   THEN [g EXCEPT ![nbrs[i]].elevation = Min(n.elevation, depth + 1)]
                   ELSE g
         IN  valleyNeighbors(g1, nbrs, i + 1, depth)

\* createValley that lowers ruins among the neighbours too
createValley_lowersRuins(g, col, row, depth) ==
    LET g1 == IF getHex(g, col, row) # Null
              THEN [g EXCEPT ![<<col, row>>].elevation = depth]
              ELSE g
        nbrs == SeqToSet(getNeighbors(g1, col, row))
    IN  [k \in DOMAIN g1 |->
            IF k \in nbrs
            THEN [g1[k] EXCEPT !.elevation = Min(g1[k].elevation, depth + 1)]
            ELSE g1[k]]

\* createValley: the centre is written as given, the neighbours are lowered
createValley(g, col, row, depth) ==
    LET center == getHex(g, col, row)
        g1 == IF center # Null
              THEN [g EXCEPT ![<<col, row>>].elevation = depth]
              ELSE g
    IN  valleyNeighbors(g1, getNeighbors(g1, col, row), 1, depth)

\* reset that forgets the isRuin flag
reset_keepsRuins(g) ==
    [k \in DOMAIN g |->
        [g[k] EXCEPT !.elevation = 0, !.isRevealed = TRUE, !.isHighlighted = FALSE]]

reset(g) ==
    [k \in DOMAIN g |->
        [g[k] EXCEPT !.elevation = 0, !.isRuin = FALSE,
                     !.isRevealed = TRUE, !.isHighlighted = FALSE]]

\* HexGrid's methods (src/js/fog.js, class HexGrid)
HexGridMethods ==
    {"getCenteringForce", "constructor", "_initGrid", "getHex", "setElevation",
     "modifyElevation", "getNeighbors", "_getHexPosition", "hexToPixel",
     "pixelToHex", "getHexAtPixel", "calculateGradient", "getElevationColor",
     "drawHex", "draw", "getCanvasDimensions", "getAllCells", "reset",
     "createValley"}

\* an erosion that raises every cell, ruins included
applyErosion_allCells(g, intensity) ==
    [k \in DOMAIN g |-> [g[k] EXCEPT !.elevation = @ + intensity]]

\* grid.applyErosion(intensity): HexGrid defines no such method, so the call
\* is a call of undefined; it throws before any cell is read or written
applyErosion(g, intensity) == g

\* what calling grid[name](...) raises
InvokeError(name) == IF name \in HexGridMethods THEN "none" ELSE TypeError

----------------------------------------------------------------------------
(* Pixel geometry, pointy-top hexagons; lengths in 1/PX pixel *)

PX == 100

\* Math.sin(0.523598776) * sideLength
hexHeight(s) == (50 * PX * s) \div 100

\* Math.cos(0.523598776) * sideLength
hexRadius(s) == (866025 * s) \div (1000000 \div PX)

hexRectangleHeight(s) == s * PX + 2 * hexHeight(s)

hexRectangleWidth(s) == 2 * hexRadius(s)

xSpacing(s) == hexRectangleWidth(s)

ySpacing(s) == s * PX + hexHeight(s)

PADDING == 10

padding == PADDING * PX

\* top-left corner of the hexagon's bounding box
getHexPosition(s, col, row) ==
    <<col * xSpacing(s) + JsMod(row, 2) * hexRadius(s) + padding,
      row * ySpacing(s) + padding>>

\* centre of the hexagon
hexToPixel(s, col, row) ==
    LET pos == getHexPosition(s, col, row)
    IN  <<pos[1] + hexRadius(s), pos[2] + hexRectangleHeight(s) \div 2>>

\* squared length; Math.hypot is compared through it
Hypot2(dx, dy) == dx * dx + dy * dy

\* the nine candidates around (col, row), rows outermost, as the loops visit them
Around(col, row) ==
    [i \in 1 .. 9 |-> <<col + ((i - 1) % 3) - 1, row + ((i - 1) \div 3) - 1>>]

\* the rounded candidate taken as it is, without the search around it
closestHex_noSearch(g, s, x, y, cand, i, best) == best.at

RECURSIVE closestHex(_, _, _, _, _, _, _)
closestHex(g, s, x, y, cand, i, best) ==
    IF i > Len(cand) THEN best.at
    ELSE LET k == cand[i]
             c == hexToPixel(s, k[1], k[2])
             d == Hypot2(x - c[1], y - c[2])
         IN  IF InGrid(g, k) /\ (best.inf \/ d < best.dist)
             THEN closestHex(g, s, x, y, cand, i + 1,
                             [at |-> k, dist |-> d, inf |-> FALSE])
             ELSE closestHex(g, s, x, y, cand, i + 1, best)

\* pixelToHex: round to a candidate, then take the nearest centre around it
pixelToHex(g, s, x, y) ==
    LET px == x - padding
        py == y - padding
        row == RoundDiv(py, ySpacing(s))
        adjustedX == IF JsMod(row, 2) = 1 THEN px - hexRadius(s) ELSE px
        col == RoundDiv(adjustedX, xSpacing(s))
    IN  closestHex(g, s, px + padding, py + padding, Around(col, row), 1,
                   [at |-> <<col, row>>, dist |-> 0, inf |-> TRUE])

getHexAtPixel(g, s, x, y) ==
    LET coords == pixelToHex(g, s, x, y)
    IN  getHex(g, coords[1], coords[2])

\* width and height of the canvas, rounded up to whole pixels
getCanvasDimensions(nc, nr, s) ==
    LET pos == getHexPosition(s, nc - 1, nr - 1)
        ceilPx(v) == ((v + PX - 1) \div PX) * PX
    IN  <<ceilPx(pos[1] + hexRectangleWidth(s) + padding),
          ceilPx(pos[2] + hexRectangleHeight(s) + padding)>>

----------------------------------------------------------------------------
(* Force field; vectors in 1/FX *)

FX == 1000

Zero2 == <<0, 0>>

RECURSIVE gradientSum(_, _, _, _, _, _, _)
gradientSum(g, s, cell, pos, nbrs, i, acc) ==
    IF i > Len(nbrs) THEN acc
    ELSE LET n == g[nbrs[i]]
             npos == hexToPixel(s, n.col, n.row)
             dx == npos[1] - pos[1]
             dy == npos[2] - pos[2]
             dist == ISqrt(Hypot2(dx, dy))
             \* (cell.elevation - n.elevation) / dist, dist in pixels
             w == (cell.elevation - n.elevation) * PX
         IN  IF dist > 0
             THEN gradientSum(g, s, cell, pos, nbrs, i + 1,
                      <<acc[1] + Quot(Quot(dx * FX, dist) * w, dist),
                        acc[2] + Quot(Quot(dy * FX, dist) * w, dist)>>)
             ELSE gradientSum(g, s, cell, pos, nbrs, i + 1, acc)

\* unit vector toward the steepest descent, or zero
calculateGradient(g, s, col, row) ==
    LET cell == getHex(g, col, row)
        neighbors == getNeighbors(g, col, row)
    IN  IF cell = Null THEN Zero2
        ELSE IF Len(neighbors) = 0 THEN Zero2
        ELSE LET sum == gradientSum(g, s, cell, hexToPixel(s, col, row),
                                    neighbors, 1, Zero2)
                 mag == ISqrt(Hypot2(sum[1], sum[2]))
             IN  IF mag > 0
                 THEN <<Quot(sum[1] * FX, mag), Quot(sum[2] * FX, mag)>>
                 ELSE sum

\* pull toward the centre of the hex, of length strength; zero within half a pixel
getCenteringForce(g, s, col, row, ballX, ballY, strength) ==
    LET cell == getHex(g, col, row)
        center == hexToPixel(s, col, row)
        dx == center[1] - ballX
        dy == center[2] - ballY
        dist == ISqrt(Hypot2(dx, dy))
    IN  IF cell = Null THEN Zero2
        ELSE IF Hypot2(dx, dy) < (PX \div 2) * (PX \div 2) THEN Zero2
        ELSE <<Quot(dx * strength, dist), Quot(dy * strength, dist)>>

\* the default strength, 0.10
CENTERING_STRENGTH == 100

----------------------------------------------------------------------------
(* Marker (class Ball).  Positions in 1/PX pixel, velocities in 1/FX pixel *)
(* per frame, dt in 1/100 millisecond, the clock in milliseconds, noise    *)
(* levels in 1/100, metrics in 1/FX.                                       *)

\* Ball.GRAVITY, 0.15
GRAVITY == 150

\* Ball.FRICTION, 0.92
FRICTION == 920

\* Ball.MAX_VELOCITY, 8
MAX_VELOCITY == 8000

TRAIL_LENGTH == 60

historyMaxLength == 120

\* the frame duration dt is normalised by, 16.67 ms
FRAME_DT == 1667

\* the speed below which the hex centering force is blended in, 1.5
LOW_SPEED == 1500

\* the number of history samples the metrics are computed from
METRIC_SAMPLES == 30

\* the default duration of a discrete step, in milliseconds
MOVE_DURATION == 300

Point(x, y) == [x |-> x, y |-> y]

\* new Ball(grid, startQ, startR)
newBall(s, startQ, startR) ==
    LET startPos == hexToPixel(s, startQ, startR)
    IN  [x |-> startPos[1], y |-> startPos[2], vx |-> 0, vy |-> 0,
         trail |-> <<>>, positionHistory |-> <<>>,
         isInRuin |-> FALSE, noiseLevel |-> 0,
         oscillationAmplitude |-> 0, recoveryRate |-> FX,
         equilibriumPosition |-> Point(startPos[1], startPos[2]),
         distanceFromEquilibrium |-> 0,
         isDiscreteMode |-> FALSE,
         \* targetX and targetY, set together and cleared together
         target |-> Null,
         moveDuration |-> MOVE_DURATION, moveStartTime |-> 0,
         sourceX |-> 0, sourceY |-> 0]

\* dt / 16.67, in 1/FX
timeScale(dt) == (dt * FX) \div FRAME_DT

\* Math.pow(Ball.FRICTION, timeScale) in 1/FX: whole frames multiply, the
\* remaining fraction of a frame is interpolated
RECURSIVE frictionPow(_)
frictionPow(ts) ==
    IF ts >= FX THEN (FRICTION * frictionPow(ts - FX)) \div FX
    ELSE FX - ((FX - FRICTION) * ts) \div FX

\* v * k with k in 1/FX
Scale(v, k) == Quot(v * k, FX)

speed2(b) == Hypot2(b.vx, b.vy)

isMovingDiscrete(b) == b.target # Null

isSettled(b, threshold) == speed2(b) < threshold * threshold

\* _applyCenteringForce: a pull of 0.5 toward the middle of the canvas
applyCenteringForce(b, nc, nr, s) ==
    LET pull(d) ==
            Apply(LAMBDA dist :
                      IF dist > 0
                      THEN [b EXCEPT !.vx = @ + Quot(d[1] * (FX \div 2), dist),
                                     !.vy = @ + Quot(d[2] * (FX \div 2), dist)]
                      ELSE b,
                  ISqrt(Hypot2(d[1], d[2])))
        toCentre(dims) == <<dims[1] \div 2 - b.x, dims[2] \div 2 - b.y>>
    IN  Apply(pull, Apply(toCentre, getCanvasDimensions(nc, nr, s)))

\* the terrain forces of update: gravity along the gradient, then the hex
\* centering force when the ball is slow
applyTerrainForces(b, g, s, currentHex, ts) ==
    LET applyGravity(gradient) ==
            [b EXCEPT !.vx = @ + Scale(Scale(gradient[1], GRAVITY), ts),
                      !.vy = @ + Scale(Scale(gradient[2], GRAVITY), ts)]
        applyCentering(b1) ==
            IF speed2(b1) < LOW_SPEED * LOW_SPEED
            THEN Apply(LAMBDA centering :
                           [b1 EXCEPT !.vx = @ + Scale(2 * centering[1], ts),
                                      !.vy = @ + Scale(2 * centering[2], ts)],
                       getCenteringForce(g, s, currentHex.col, currentHex.row,
                                         b1.x, b1.y, CENTERING_STRENGTH))
            ELSE b1
    IN  Apply(applyCentering,
              Apply(applyGravity,
                    calculateGradient(g, s, currentHex.col, currentHex.row)))

\* the perturbations Math.random() can produce at a noise level: none, or a
\* vector of length noiseLevel * 0.5 * [0.5, 1) * 10 in any direction
NoiseKicks(level) ==
    IF level > 0
    THEN {Zero2, <<25 * level, 0>>, <<0, -(50 * level - 1)>>}
    ELSE {Zero2}

\* _applyNoise, kick being what the random draws came to
applyNoise(b, kick) == [b EXCEPT !.vx = @ + kick[1], !.vy = @ + kick[2]]

applyFriction(b, ts) ==
    Apply(LAMBDA f : [b EXCEPT !.vx = Scale(@, f), !.vy = Scale(@, f)],
          frictionPow(ts))

\* update without the clamp of the speed
clampVelocity_off(b) == b

clampVelocity(b) ==
    IF speed2(b) > MAX_VELOCITY * MAX_VELOCITY
    THEN Apply(LAMBDA speed : [b EXCEPT !.vx = Quot(@ * MAX_VELOCITY, speed),
                                        !.vy = Quot(@ * MAX_VELOCITY, speed)],
               ISqrt(speed2(b)))
    ELSE b

\* x += vx * timeScale
integrate(b, ts) ==
    [b EXCEPT !.x = @ + Quot(Scale(b.vx, ts), FX \div PX),
              !.y = @ + Quot(Scale(b.vy, ts), FX \div PX)]

\* the eased fraction of t, both in 1/FX: 2t^2 below one half, else -1 + (4 - 2t)t
easeInOut(t) ==
    IF 2 * t < FX
    THEN (2 * t * t) \div FX
    ELSE ((4 * FX - 2 * t) * t) \div FX - FX

\* _updateDiscrete: the position is read off the wall clock, dt is not used
updateDiscrete(b, dt, clock) ==
    IF b.target = Null THEN b
    ELSE LET elapsed == clock - b.moveStartTime
             t == Min(FX, Quot(elapsed * FX, b.moveDuration))
             easedT == easeInOut(t)
         IN  IF t >= FX
             THEN [b EXCEPT !.x = b.target.x, !.y = b.target.y,
                            !.target = Null, !.vx = 0, !.vy = 0]
             ELSE [b EXCEPT !.x = b.sourceX + Scale(b.target.x - b.sourceX, easedT),
                            !.y = b.sourceY + Scale(b.target.y - b.sourceY, easedT)]

moveTo(b, s, col, row, duration, clock) ==
    LET pos == hexToPixel(s, col, row)
    IN  [b EXCEPT !.sourceX = b.x, !.sourceY = b.y,
                  !.target = Point(pos[1], pos[2]),
                  !.moveDuration = duration, !.moveStartTime = clock]

\* push, then shift when the buffer is over its capacity
pushCapped(buf, e, cap) ==
    IF Len(buf) + 1 > cap THEN Tail(Append(buf, e)) ELSE Append(buf, e)

\* _updateTrail that never shifts
updateTrail_noShift(b) ==
    [b EXCEPT !.trail = Append(@, Point(b.x, b.y)),
              !.positionHistory = Append(@, Point(b.x, b.y))]

\* _updateTrail; the time stamp of a history entry is read by nothing and is
\* left out
updateTrail(b) ==
    [b EXCEPT !.trail = pushCapped(@, Point(b.x, b.y), TRAIL_LENGTH),
              !.positionHistory = pushCapped(@, Point(b.x, b.y), historyMaxLength)]

RECURSIVE SumX(_, _)
SumX(ps, i) == IF i > Len(ps) THEN 0 ELSE ps[i].x + SumX(ps, i + 1)

RECURSIVE SumY(_, _)
SumY(ps, i) == IF i > Len(ps) THEN 0 ELSE ps[i].y + SumY(ps, i + 1)

\* the sum of the squared distances to the mean, each already divided by n
RECURSIVE SumDev(_, _, _, _, _)
SumDev(ps, i, meanX, meanY, n) ==
    IF i > Len(ps) THEN 0
    ELSE Quot(Hypot2(ps[i].x - meanX, ps[i].y - meanY), n)
             + SumDev(ps, i + 1, meanX, meanY, n)

\* the whole history instead of its last METRIC_SAMPLES entries
recentPositions_all(b) == b.positionHistory

\* the last METRIC_SAMPLES entries of the history (slice(-30))
recentPositions(b) ==
    SubSeq(b.positionHistory,
           Max(1, Len(b.positionHistory) - METRIC_SAMPLES + 1),
           Len(b.positionHistory))

\* Math.min(1, Math.sqrt(variance) / 50)
oscillation(recent) ==
    LET n == Len(recent)
        mean == <<Quot(SumX(recent, 1), n), Quot(SumY(recent, 1), n)>>
        variance(m) == SumDev(recent, 1, m[1], m[2], n)
    IN  Min(FX, (ISqrt(Apply(variance, mean)) * FX) \div (50 * PX))

\* 1 - currentSpeed / MAX_VELOCITY, without the Math.max(0, .)
recovery_noClamp(b) == FX - (ISqrt(speed2(b)) * FX) \div MAX_VELOCITY

\* Math.max(0, 1 - currentSpeed / Ball.MAX_VELOCITY)
recovery(b) == Max(0, FX - (ISqrt(speed2(b)) * FX) \div MAX_VELOCITY)

updateMetrics(b) ==
    IF Len(b.positionHistory) < METRIC_SAMPLES THEN b
    ELSE [b EXCEPT
            !.oscillationAmplitude = Apply(oscillation, recentPositions(b)),
            !.recoveryRate = recovery(b),
            !.distanceFromEquilibrium =
                ISqrt(Hypot2(b.x - b.equilibriumPosition.x,
                             b.y - b.equilibriumPosition.y))]

setEquilibrium(b) == [b EXCEPT !.equilibriumPosition = Point(b.x, b.y)]

\* lastPerturbationTime is read by nothing and is left out
applyImpulse(b, fx, fy) == [b EXCEPT !.vx = @ + fx, !.vy = @ + fy]

\* setPosition that also leaves the terminal state
setPosition_clearsRuin(b, x, y) ==
    [b EXCEPT !.x = x, !.y = y, !.vx = 0, !.vy = 0,
              !.trail = <<>>, !.positionHistory = <<>>, !.isInRuin = FALSE]

setPosition(b, x, y) ==
    [b EXCEPT !.x = x, !.y = y, !.vx = 0, !.vy = 0,
              !.trail = <<>>, !.positionHistory = <<>>]

\* moveToHex that enters the terminal state when the cell is a ruin
moveToHex_entersRuin(b, g, s, q, r) ==
    LET pos == hexToPixel(s, q, r)
        cell == getHex(g, q, r)
    IN  [setEquilibrium(setPosition(b, pos[1], pos[2]))
            EXCEPT !.isInRuin = @ \/ (cell # Null /\ cell.isRuin)]

moveToHex(b, g, s, q, r) ==
    LET pos == hexToPixel(s, q, r)
    IN  setEquilibrium(setPosition(b, pos[1], pos[2]))

getCurrentHex(b, g, s) == getHexAtPixel(g, s, b.x, b.y)

\* Ball.reset(q, r)
ballReset(b, s, q, r) ==
    LET pos == hexToPixel(s, q, r)
    IN  [b EXCEPT !.x = pos[1], !.y = pos[2], !.vx = 0, !.vy = 0,
                  !.trail = <<>>, !.positionHistory = <<>>,
                  !.isInRuin = FALSE, !.noiseLevel = 0,
                  !.oscillationAmplitude = 0, !.recoveryRate = FX,
                  !.equilibriumPosition = Point(pos[1], pos[2])]

\* the continuous-mode step of update over the cell currentHex (or none)
updateContinuous(b, g, nc, nr, s, currentHex, dt, kick) ==
    LET ts == timeScale(dt)
        forced == IF currentHex = Null
                  THEN applyCenteringForce(b, nc, nr, s)
                  ELSE applyTerrainForces(b, g, s, currentHex, ts)
        noise(v) == IF v.noiseLevel > 0 THEN applyNoise(v, kick) ELSE v
        friction(v) == applyFriction(v, ts)
        move(v) == integrate(v, ts)
    IN  Apply(updateMetrics,
          Apply(updateTrail,
            Apply(move,
              Apply(clampVelocity,
                Apply(friction,
                  Apply(noise, forced))))))

\* Ball.update(dt) at wall-clock time clock
update(b, g, nc, nr, s, dt, clock, kick) ==
    IF b.isInRuin THEN b
    ELSE IF b.isDiscreteMode
    THEN Apply(updateMetrics, Apply(updateTrail, updateDiscrete(b, dt, clock)))
    ELSE Apply(LAMBDA currentHex :
                   IF currentHex # Null /\ currentHex.isRuin
                   THEN [b EXCEPT !.isInRuin = TRUE]
                   ELSE updateContinuous(b, g, nc, nr, s, currentHex, dt, kick),
               getCurrentHex(b, g, s))

----------------------------------------------------------------------------
(* Fog overlay: the writes that reach the cells *)

\* the value read from property name of a cell object
Prop(cell, name) == IF name \in DOMAIN cell THEN cell[name] ELSE Undefined

\* the key `${cell.q},${cell.r}` the overlay builds for a cell
FogKey(cell) == <<Prop(cell, "q"), Prop(cell, "r")>>

MapSet(m, k, v) == [x \in DOMAIN m \cup {k} |-> IF x = k THEN v ELSE m[x]]

EmptyMap == [x \in {} |-> 0]

RECURSIVE setAllVisibility(_, _, _, _)
setAllVisibility(vis, g, todo, level) ==
    IF todo = {} THEN vis
    ELSE LET k == CHOOSE x \in todo : TRUE
         IN  setAllVisibility(MapSet(vis, FogKey(g[k]), level), g,
                              todo \ {k}, level)

\* the visibility levels 0, 1/2 and 1, in tenths
HIDDEN == 0
HALF == 5
VISIBLE == 10

\* _initializeVisibility: every cell's entry and mirror flag
initializeVisibility(vis, g, revealed) ==
    [vis |-> setAllVisibility(vis, g, getAllCells(g),
                              IF revealed THEN VISIBLE ELSE HIDDEN),
     cells |-> [k \in DOMAIN g |-> [g[k] EXCEPT !.isRevealed = revealed]]]

coverAll(vis, g) ==
    [vis |-> setAllVisibility(vis, g, getAllCells(g), HIDDEN),
     cells |-> [k \in DOMAIN g |-> [g[k] EXCEPT !.isRevealed = FALSE]]]

revealAll(vis, g) ==
    [vis |-> setAllVisibility(vis, g, getAllCells(g), VISIBLE),
     cells |-> [k \in DOMAIN g |-> [g[k] EXCEPT !.isRevealed = TRUE]]]

\* visibility.get(key) ?? 1
getVisibility(vis, q, r) ==
    IF <<q, r>> \in DOMAIN vis THEN vis[<<q, r>>] ELSE VISIBLE

isRevealed(vis, q, r) == getVisibility(vis, q, r) > HALF

\* setVisibility: the entry of key `${q},${r}` is written whether or not the
\* grid has such a cell; the cell's mirror flag only when it has
setVisibility(vis, g, q, r, level) ==
    LET clamped == Max(HIDDEN, Min(VISIBLE, level))
    IN  [vis |-> MapSet(vis, <<q, r>>, clamped),
         cells |-> IF getHex(g, q, r) # Null
                   THEN [g EXCEPT ![<<q, r>>].isRevealed = clamped > HALF]
                   ELSE g,
         err |-> NoError]

\* reveal and cover: the centre, then the rings 1..radius; _getHexesInRing
\* reads directions[i] of HexGrid.DIRECTIONS, which nothing defines, so the
\* first ring ends the call with a TypeError after the centre was written
setDisc(vis, g, centerQ, centerR, radius, level) ==
    IF getHex(g, centerQ, centerR) = Null
    THEN [vis |-> vis, cells |-> g, err |-> NoError]
    ELSE [setVisibility(vis, g, centerQ, centerR, level)
            EXCEPT !.err = IF radius >= 1 THEN TypeError ELSE NoError]

reveal(vis, g, centerQ, centerR, radius) ==
    setDisc(vis, g, centerQ, centerR, radius, VISIBLE)

cover(vis, g, centerQ, centerR, radius) ==
    setDisc(vis, g, centerQ, centerR, radius, HIDDEN)

\* the cells revealRandom draws from
hiddenHexes(g) == {k \in DOMAIN g : ~g[k].isRevealed}

\* revealRandom once it drew the cell at k: setVisibility(randomHex.q,
\* randomHex.r, 1) with the properties q and r a cell does not have
revealRandom(vis, g, k) ==
    setVisibility(vis, g, Prop(g[k], "q"), Prop(g[k], "r"), VISIBLE)

\* FogSystem.reset(allRevealed)
fogReset(vis, g, allRevealed) == initializeVisibility(vis, g, allRevealed)

\* FogSystem.getHiddenCount: the entries of the overlay below 1/2
getHiddenCount(vis) == Cardinality({k \in DOMAIN vis : vis[k] < HALF})

\* FogSystem.getRevealedCount: the entries of the overlay at 1/2 or above
getRevealedCount(vis) == Cardinality({k \in DOMAIN vis : vis[k] >= HALF})

\* FogSystem.getRevealedPercentage, as the fraction num / den: 100 for an
\* empty overlay, else the revealed count over the number of entries, times 100
getRevealedPercentage(vis) ==
    LET total == Cardinality(DOMAIN vis)
    IN  IF total = 0 THEN [num |-> 100, den |-> 1]
        ELSE [num |-> getRevealedCount(vis) * 100, den |-> total]

----------------------------------------------------------------------------
(* Act 1: the handlers that move the ball from cell to cell; times in ms *)

AUTO_ROLL_DELAY == 800
TRANSIENT_DURATION == 1200
ACT1_MOVE_DURATION == 400

\* lastMoveTime 0 of the constructor is the epoch, long before the clock of
\* the model starts
LongAgo == -1000000

\* Act 1's fields as its constructor and init leave them; completed counts the
\* runs of _completeAct (each calls onComplete) since init or reset
newAct1 ==
    [isTransient |-> FALSE, transientTimer |-> 0, lastMoveTime |-> LongAgo,
     phase |-> 1, ballInValley |-> FALSE, ballEscaped |-> FALSE,
     isComplete |-> FALSE, totalNudges |-> 0, nudgesIn |-> 0, nudgesOut |-> 0,
     completed |-> 0]

\* the ring-2 cells of _buildLandscape: neighbours of ring 1 that are neither
\* the centre nor in ring 1
landscapeRing2(g, center, ring1) ==
    (UNION {SeqToSet(getNeighbors(g, n[1], n[2])) : n \in ring1})
        \ (ring1 \cup {center})

\* _buildLandscape: the valley centre at -3, ring 1 at -2, ring 2 at -1, ruins
\* of the rings left alone
buildLandscape(g, valleyCol, valleyRow) ==
    LET center == <<valleyCol, valleyRow>>
        ring1 == SeqToSet(getNeighbors(g, valleyCol, valleyRow))
        ring2 == landscapeRing2(g, center, ring1)
    IN  [k \in DOMAIN g |->
            IF k = center THEN [g[k] EXCEPT !.elevation = -3]
            ELSE IF k \in ring1 /\ ~g[k].isRuin THEN [g[k] EXCEPT !.elevation = -2]
            ELSE IF k \in ring2 /\ ~g[k].isRuin THEN [g[k] EXCEPT !.elevation = -1]
            ELSE g[k]]

\* the state a handler of Act 1 works on: Act 1's fields, the ball, and for
\* each ball.moveTo the handler invoked what isMovingDiscrete() was at the call
Handler(a, b) == [act |-> a, ball |-> b, invoked |-> <<>>]

clearTransient(a) == [a EXCEPT !.isTransient = FALSE, !.transientTimer = 0]

\* _moveBallToHex(hex) at the instant clock
moveBallToHex(st, g, s, k, clock) ==
    LET currentHex == getCurrentHex(st.ball, g, s)
        isUphill == currentHex # Null /\ g[k].elevation > currentHex.elevation
        a1 == IF ~isUphill THEN clearTransient(st.act) ELSE st.act
    IN  [act |-> [a1 EXCEPT !.lastMoveTime = clock],
         ball |-> moveTo(st.ball, s, k[1], k[2], ACT1_MOVE_DURATION, clock),
         invoked |-> Append(st.invoked, isMovingDiscrete(st.ball))]

\* a count that forgets the phase
countNudge_totalOnly(a) == [a EXCEPT !.totalNudges = @ + 1]

\* the counters of a click that involves the well
countNudge(a) ==
    [a EXCEPT !.totalNudges = @ + 1,
              !.nudgesIn = IF a.phase = 1 THEN @ + 1 ELSE @,
              !.nudgesOut = IF a.phase = 1 THEN @ ELSE @ + 1]

\* Act 1's reset(): the fields it assigns; isTransient, transientTimer and
\* lastMoveTime are not among them
act1Reset(a) ==
    [a EXCEPT !.phase = 1, !.nudgesIn = 0, !.nudgesOut = 0, !.totalNudges = 0,
              !.isComplete = FALSE, !.ballInValley = FALSE,
              !.ballEscaped = FALSE, !.completed = 0]

\* the part of _handleHexClick past its isMovingDiscrete test
clickOn(st, g, s, x, y, clock) ==
    LET hex == getHexAtPixel(g, s, x, y)
        currentHex == getCurrentHex(st.ball, g, s)
    IN  IF hex = Null \/ currentHex = Null THEN st
        ELSE LET k == <<hex.col, hex.row>>
                 isNeighbor ==
                     k \in SeqToSet(getNeighbors(g, currentHex.col, currentHex.row))
                 isUphill == hex.elevation > currentHex.elevation
                 isClickInWell == currentHex.elevation < 0 \/ hex.elevation < 0
                 counted == IF isClickInWell
                            THEN [st EXCEPT !.act = countNudge(st.act)]
                            ELSE st
                 moved == moveBallToHex(counted, g, s, k, clock)
             IN  IF ~isNeighbor \/ hex = currentHex THEN st
                 ELSE [moved EXCEPT !.act =
                          IF isUphill /\ hex.elevation < 0
                          THEN [moved.act EXCEPT
                                   !.isTransient = TRUE,
                                   !.transientTimer = TRANSIENT_DURATION]
                          ELSE clearTransient(moved.act)]

\* _handleHexClick without its isMovingDiscrete test
handleHexClick_noGuard(st, g, s, x, y, clock) == clickOn(st, g, s, x, y, clock)

\* _handleHexClick(clickX, clickY)
handleHexClick(st, g, s, x, y, clock) ==
    IF isMovingDiscrete(st.ball) THEN st ELSE clickOn(st, g, s, x, y, clock)

\* _slideBack(currentHex): to the first lower neighbour, if there is one
slideBack(st, g, s, currentHex, clock) ==
    LET nbrs == getNeighbors(g, currentHex.col, currentHex.row)
        lower == {i \in 1 .. Len(nbrs) : g[nbrs[i]].elevation < currentHex.elevation}
        moved == IF lower = {} THEN st
                 ELSE moveBallToHex(st, g, s,
                          nbrs[CHOOSE i \in lower : \A j \in lower : i <= j], clock)
    IN  [moved EXCEPT !.act = clearTransient(moved.act)]

\* the neighbour the loop of _checkAutoRoll ends on: the first of the lowest
\* neighbours when it is lower than the current cell, else none
lowestNeighbor(g, currentHex) ==
    LET nbrs == getNeighbors(g, currentHex.col, currentHex.row)
        lowest == {i \in 1 .. Len(nbrs) :
                      /\ g[nbrs[i]].elevation < currentHex.elevation
                      /\ \A j \in 1 .. Len(nbrs) :
                            g[nbrs[i]].elevation <= g[nbrs[j]].elevation}
    IN  IF lowest = {} THEN Null
        ELSE nbrs[CHOOSE i \in lowest : \A j \in lowest : i <= j]

\* _checkAutoRoll(dt) at the instant clock
checkAutoRoll(st, g, s, dt, clock) ==
    LET currentHex == getCurrentHex(st.ball, g, s)
        timer == st.act.transientTimer - dt
        ticked == IF st.act.isTransient
                  THEN [st EXCEPT !.act.transientTimer = timer]
                  ELSE st
        lowest == lowestNeighbor(g, currentHex)
    IN  IF isMovingDiscrete(st.ball) THEN st
        ELSE IF clock - st.act.lastMoveTime < AUTO_ROLL_DELAY THEN st
        ELSE IF currentHex = Null THEN st
        ELSE IF st.act.isTransient /\ timer <= 0
        THEN slideBack(ticked, g, s, currentHex, clock)
        ELSE IF currentHex.elevation >= 0 THEN ticked
        ELSE IF lowest # Null THEN moveBallToHex(ticked, g, s, lowest, clock)
        ELSE ticked

\* a phase check that completes the act on every frame spent on level ground
checkPhase_everyFrame(st, g, s) ==
    LET currentHex == getCurrentHex(st.ball, g, s)
        a == st.act
    IN  IF currentHex = Null THEN st
        ELSE IF a.phase = 1 /\ currentHex.elevation = -3
        THEN [st EXCEPT !.act.ballInValley = TRUE, !.act.phase = 2]
        ELSE IF a.phase = 2 /\ currentHex.elevation = 0
        THEN [st EXCEPT !.act.ballEscaped = TRUE, !.act.isComplete = TRUE,
                        !.act.completed = @ + 1]
        ELSE st

\* the phase bookkeeping at the end of _checkState
checkPhase(st, g, s) ==
    LET currentHex == getCurrentHex(st.ball, g, s)
        a == st.act
        trapped == IF a.phase = 1 /\ ~a.ballInValley /\ currentHex.elevation = -3
                   THEN [a EXCEPT !.ballInValley = TRUE, !.phase = 2]
                   ELSE a
        escaped == IF trapped.phase = 2 /\ ~trapped.ballEscaped
                        /\ currentHex.elevation = 0
                   THEN [trapped EXCEPT !.ballEscaped = TRUE, !.isComplete = TRUE,
                                        !.completed = @ + 1]
                   ELSE trapped
    IN  IF a.isComplete \/ currentHex = Null THEN st
        ELSE [st EXCEPT !.act = escaped]

\* _checkState(dt) at the instant clock
checkState(st, g, s, dt, clock) ==
    IF isMovingDiscrete(st.ball) THEN st
    ELSE Apply(LAMBDA rolled : checkPhase(rolled, g, s),
               checkAutoRoll(st, g, s, dt, clock))

\* _update(dt) of the animation loop: ball.update(dt), then _checkState(dt)
act1Update(a, b, g, nc, nr, s, dt, clock) ==
    Apply(LAMBDA b1 : checkState(Handler(a, b1), g, s, dt, clock),
          update(b, g, nc, nr, s, dt * 100, clock, Zero2))

----------------------------------------------------------------------------
(* Act 5: a budget spent in the preparation phase, then the crisis rounds *)

MAX_RP == 50
MAX_CRISIS_ROUNDS == 3

\* Act5Governor.ACTIONS
ActionNames == {"deepen", "widen", "scout", "barrier"}

actionCost(action) ==
    CASE action = "deepen" -> 3
      [] action = "widen" -> 5
      [] action = "scout" -> 2
      [] action = "barrier" -> 8

\* selectedAction = null
NoAction == "null"

\* Act 5's fields as its constructor leaves them. bound says that fog and
\* ball are set; timers counts the crisis-round timers that have not fired;
\* shocks and completed count the shocks and erosions applied and the runs of
\* _completeAct since the phase last became 'crisis'
newAct5(bound) ==
    [bound |-> bound, animationId |-> bound,
     resiliencePoints |-> MAX_RP, phase |-> "preparation", crisisRound |-> 0,
     isComplete |-> FALSE, selectedAction |-> NoAction,
     awaitingHexSelection |-> FALSE,
     actionsUsed |-> [a \in ActionNames |-> 0],
     timers |-> 0, shocks |-> 0, completed |-> 0]

\* the state a handler of Act 5 works on: Act 5's fields, the grid, the
\* overlay and the ball, the shocks, erosions and completions of the handler
\* so far, and the error that ended it
Handler5(a, g, vis, b) ==
    [act |-> a, cells |-> g, vis |-> vis, ball |-> b, events |-> <<>>,
     err |-> NoError]

Failed(st) == st.err # NoError

\* a step of a handler: skipped once the handler has thrown
Then(st, step(_)) == IF Failed(st) THEN st ELSE Apply(step, st)

\* a step that reads a property of this.fog or this.ball
NeedsBound(st) == IF st.act.bound THEN st ELSE [st EXCEPT !.err = TypeError]

\* _selectAction(action, cost)
selectAction(a, action, cost) ==
    IF a.phase # "preparation" \/ a.resiliencePoints < cost THEN a
    ELSE [a EXCEPT !.selectedAction = action, !.awaitingHexSelection = TRUE]

\* the purchase of an action: its cost and its count
pay(a, action) ==
    [a EXCEPT !.resiliencePoints = @ - actionCost(action),
              !.actionsUsed[action] = @ + 1]

\* the neighbours' step of 'widen': modifyElevation(n.q, n.r, -0.5) for each
\* neighbour of (hex.q, hex.r) that is no ruin. A cell has neither q nor r, so
\* no neighbour is found and no call names a cell; the half step is written -1
\* here, elevations being whole numbers in this model
RECURSIVE widenNeighbors(_, _, _)
widenNeighbors(g, nbrs, i) ==
    IF i > Len(nbrs) THEN g
    ELSE widenNeighbors(
             IF g[nbrs[i]].isRuin THEN g
             ELSE modifyElevation(g, Prop(g[nbrs[i]], "q"),
                                  Prop(g[nbrs[i]], "r"), -1),
             nbrs, i + 1)

\* the switch of _handleHexSelection on the cell hex
applyAction(st, hex) ==
    LET action == st.act.selectedAction
        q == Prop(hex, "q")
        r == Prop(hex, "r")
        paid == [st EXCEPT !.act = pay(st.act, action)]
    IN  CASE action = "deepen" ->
                IF hex.isRuin THEN st
                ELSE [paid EXCEPT !.cells = modifyElevation(st.cells, q, r, -1)]
          [] action = "widen" ->
                IF hex.isRuin THEN st
                ELSE [paid EXCEPT !.cells =
                         widenNeighbors(modifyElevation(st.cells, q, r, -1),
                                        getNeighbors(st.cells, q, r), 1)]
          [] action = "scout" ->
                Then(NeedsBound(st),
                     LAMBDA s1 :
                         Apply(LAMBDA fog :
                                   IF fog.err # NoError
                                   THEN [s1 EXCEPT !.cells = fog.cells,
                                                   !.vis = fog.vis,
                                                   !.err = fog.err]
                                   ELSE [s1 EXCEPT !.cells = fog.cells,
                                                   !.vis = fog.vis,
                                                   !.act = pay(s1.act, action)],
                               reveal(s1.vis, s1.cells, q, r, 1)))
          [] action = "barrier" ->
                IF hex.isRuin THEN st
                ELSE [paid EXCEPT !.cells = modifyElevation(st.cells, q, r, 2)]

clearSelection(a) ==
    [a EXCEPT !.selectedAction = NoAction, !.awaitingHexSelection = FALSE]

\* _handleHexSelection(x, y)
handleHexSelection(st, s, x, y) ==
    LET hex == getHexAtPixel(st.cells, s, x, y)
    IN  IF hex = Null \/ st.act.selectedAction = NoAction THEN st
        ELSE IF st.act.resiliencePoints < actionCost(st.act.selectedAction)
        THEN st
        ELSE Then(applyAction(st, hex),
                  LAMBDA s1 : [s1 EXCEPT !.act = clearSelection(s1.act)])

\* _completeAct: isComplete, then fog.revealAll()
completeAct(st) ==
    Then([st EXCEPT !.act.isComplete = TRUE, !.act.completed = @ + 1,
                    !.events = Append(@, "complete")],
         LAMBDA s1 :
             Then(NeedsBound(s1),
                  LAMBDA s2 :
                      [s2 EXCEPT !.vis = revealAll(s2.vis, s2.cells).vis,
                                 !.cells = revealAll(s2.vis, s2.cells).cells]))

\* _applyNShock with the impulse f drawn
applyNShock(st, f) ==
    [st EXCEPT !.ball = applyImpulse(st.ball, f[1], f[2]),
               !.act.shocks = @ + 1,
               !.events = Append(@, "shock")]

\* _applyBErosion: grid.applyErosion(0.7) is a call of undefined
applyBErosion(st) ==
    IF InvokeError("applyErosion") # NoError
    THEN [st EXCEPT !.err = InvokeError("applyErosion")]
    ELSE [st EXCEPT !.act.shocks = @ + 1, !.events = Append(@, "erosion")]

\* _runCrisisRound with the event drawn: the shock or the erosion, then the
\* timer of the round
runCrisisRound(st, isNShock, f) ==
    IF st.act.crisisRound > MAX_CRISIS_ROUNDS THEN completeAct(st)
    ELSE Then(NeedsBound(st),
              LAMBDA s1 :
                  IF s1.ball.isInRuin THEN completeAct(s1)
                  ELSE Then(IF isNShock THEN applyNShock(s1, f)
                            ELSE applyBErosion(s1),
                            LAMBDA s2 : [s2 EXCEPT !.act.timers = @ + 1]))

\* _startCrisisPhase
startCrisisPhase(st, isNShock, f) ==
    IF st.act.phase # "preparation" THEN st
    ELSE runCrisisRound(
             [st EXCEPT !.act.phase = "crisis", !.act.crisisRound = 1,
                        !.act.shocks = 0, !.act.completed = 0],
             isNShock, f)

\* the callback of a crisis round's timer
crisisTimer(st, isNShock, f) ==
    Then(NeedsBound([st EXCEPT !.act.timers = @ - 1]),
         LAMBDA s1 :
             IF s1.ball.isInRuin THEN completeAct(s1)
             ELSE runCrisisRound([s1 EXCEPT !.act.crisisRound = @ + 1],
                                 isNShock, f))

\* stop()
act5Stop(a) == [a EXCEPT !.animationId = FALSE]

\* _setupLandscape on a grid with the valley at (col, row): createValley, then
\* grid.setRuin for the first ruin position, a call of undefined
setupLandscape(st, col, row) ==
    [st EXCEPT !.cells = createValley(st.cells, col, row, -1),
               !.err = InvokeError("setRuin")]

\* reset(): stop, the fields, grid.reset() and _setupLandscape(), which throws;
\* what follows in reset (fog, ball, animation) is not reached
act5Reset(st, col, row) ==
    setupLandscape(
        [st EXCEPT !.act = [clearSelection(act5Stop(st.act)) EXCEPT
                               !.resiliencePoints = MAX_RP,
                               !.phase = "preparation",
                               !.crisisRound = 0,
                               !.isComplete = FALSE,
                               !.actionsUsed = [a \in ActionNames |-> 0]],
                   !.cells = reset(st.cells)],
        col, row)

\* the application's fields as its constructor leaves them: currentAct, the
\* acts that have been created, and those with an animation frame requested
\* (animationId not null) or an erosion interval set; err is the error that
\* ended the handler
newApp == [currentAct |-> 0, created |-> {}, running |-> {}, err |-> NoError]

ActNumbers == 1 .. 5

\* the error that ends init() and reset() of an act: Acts 2 to 5 call
\* grid.setRuin, which HexGrid does not define, before they start their
\* animation and their erosion interval; Act 1 does not
setupError(n) == IF n = 1 THEN NoError ELSE InvokeError("setRuin")

\* _stopAllActs: stop() of every act that exists
stopAllActs(a) == [a EXCEPT !.running = @ \ a.created]

\* _initActN: the act is created if it is not there, then init()
initAct(a, n) ==
    IF setupError(n) # NoError
    THEN [a EXCEPT !.created = @ \cup {n}, !.err = setupError(n)]
    ELSE [a EXCEPT !.created = @ \cup {n}, !.running = @ \cup {n}]

\* _startAct(actNumber)
startAct(a, n) ==
    Apply(LAMBDA a1 : IF a1.err # NoError THEN a1
                      ELSE [a1 EXCEPT !.currentAct = n],
          initAct(stopAllActs([a EXCEPT !.err = NoError]), n))

\* reset() of act n: stop(), the act's state, then the animation again
resetAct(a, n) ==
    IF a.err # NoError \/ n \notin a.created THEN a
    ELSE IF setupError(n) # NoError
    THEN [a EXCEPT !.running = @ \ {n}, !.err = setupError(n)]
    ELSE [a EXCEPT !.running = @ \cup {n}]

\* the resets of _restart, act by act
RECURSIVE resetActs(_, _)
resetActs(a, n) ==
    IF n > 5 THEN a ELSE resetActs(resetAct(a, n), n + 1)

\* _restart()
restart(a) ==
    Apply(LAMBDA a1 : IF a1.err # NoError THEN a1
                      ELSE [a1 EXCEPT !.currentAct = 0],
          resetActs(stopAllActs([a EXCEPT !.err = NoError]), 1))

-----------------------------------------------------------------------------
(* Construction *)

\* a driver that never stops calling update
Unbounded == -1

\* a call that returned ret
Call(op, args, ret) == [op |-> op, args |-> args, ret |-> ret, err |-> NoError]

\* a call that threw err
Thrown(op, args, err) == [op |-> op, args |-> args, ret |-> Undefined, err |-> err]

\* new HexGrid(nc, nr, s) and new FogSystem(grid), with the ball b bound to
\* the grid and a driver that runs for sessionFrames frames
ConstructWith(nc, nr, s, b, sessionFrames) ==
    LET fog == initializeVisibility(EmptyMap, InitGrid(nc, nr), TRUE)
    IN  /\ cols = nc
        /\ rows = nr
        /\ sideLength = s
        /\ cells = fog.cells
        /\ visibility = fog.vis
        /\ ball = b
        /\ now = 0
        /\ impulses = Impulses
        /\ frames = sessionFrames
        /\ act1 = newAct1
        /\ act5 = newAct5(FALSE)
        /\ app = newApp
        /\ lastOp = Call("new", <<nc, nr, s>>, Undefined)

\* the ball as Act 1 binds it: new Ball, then isDiscreteMode = true
act1Ball(s, startCol, startRow) ==
    [newBall(s, startCol, startRow) EXCEPT !.isDiscreteMode = TRUE]

ConstructFor(nc, nr, s, sessionFrames) ==
    ConstructWith(nc, nr, s, newBall(s, 0, 0), sessionFrames)

Construct(nc, nr, s) == ConstructFor(nc, nr, s, Unbounded)

\* coordinates outside an nc x nr grid: beside it, above it, far from it
OutCoords(nc, nr) == {<<-1, 0>>, <<0, -1>>, <<nc + 1, 0>>}

Coords == DOMAIN cells \cup OutCoords(cols, rows)

\* a cell the scenario has placed a ruin on (grid.setRuin in the acts)
markRuin(g, col, row) ==
    IF <<col, row>> \in DOMAIN g
    THEN [g EXCEPT ![<<col, row>>].isRuin = TRUE]
    ELSE g

----------------------------------------------------------------------------
(* Operations that edit the grid *)

SetElevation ==
    \E k \in Coords, val \in ElevInputs :
        /\ cells' = setElevation(cells, k[1], k[2], val)
        /\ lastOp' = Call("setElevation", <<k[1], k[2], val>>, Undefined)
        /\ UNCHANGED <<gridShape, session, act1, visibility, marker>>

ModifyElevation ==
    \E k \in Coords, delta \in Deltas :
        /\ cells' = modifyElevation(cells, k[1], k[2], delta)
        /\ lastOp' = Call("modifyElevation", <<k[1], k[2], delta>>, Undefined)
        /\ UNCHANGED <<gridShape, session, act1, visibility, marker>>

CreateValley ==
    \E k \in Coords, depth \in Depths :
        /\ cells' = createValley(cells, k[1], k[2], depth)
        /\ lastOp' = Call("createValley", <<k[1], k[2], depth>>, Undefined)
        /\ UNCHANGED <<gridShape, session, act1, visibility, marker>>

Reset ==
    /\ cells' = reset(cells)
    /\ lastOp' = Call("reset", <<>>, Undefined)
    /\ UNCHANGED <<gridShape, session, act1, visibility, marker>>

MarkRuin ==
    \E k \in DOMAIN cells :
        /\ ~cells[k].isRuin
        /\ cells' = markRuin(cells, k[1], k[2])
        /\ lastOp' = Call("setRuin", <<k[1], k[2]>>, Undefined)
        /\ UNCHANGED <<gridShape, session, act1, visibility, marker>>

ApplyErosion ==
    \E intensity \in Intensities :
        /\ cells' = applyErosion(cells, intensity)
        /\ lastOp' = IF InvokeError("applyErosion") = NoError
                     THEN Call("applyErosion", <<intensity>>, Undefined)
                     ELSE Thrown("applyErosion", <<intensity>>,
                                 InvokeError("applyErosion"))
        /\ UNCHANGED <<gridShape, session, act1, visibility, marker>>

CoverAll ==
    LET fog == coverAll(visibility, cells)
    IN  /\ cells' = fog.cells
        /\ visibility' = fog.vis
        /\ lastOp' = Call("coverAll", <<>>, Undefined)
        /\ UNCHANGED <<gridShape, session, act1, marker>>

RevealAll ==
    LET fog == revealAll(visibility, cells)
    IN  /\ cells' = fog.cells
        /\ visibility' = fog.vis
        /\ lastOp' = Call("revealAll", <<>>, Undefined)
        /\ UNCHANGED <<gridShape, session, act1, marker>>

\* levels handed to setVisibility: below 0, 0, 1/2, 1, above 1
Levels == {-5, HIDDEN, HALF, VISIBLE, 15}

Radii == {-1, 0, 1}

\* coordinates handed to the overlay: every cell and one place off the grid
FogCoords == DOMAIN cells \cup {<<-1, 0>>}

SetVisibility ==
    \E k \in FogCoords, level \in Levels :
        LET fog == setVisibility(visibility, cells, k[1], k[2], level)
        IN  /\ cells' = fog.cells
            /\ visibility' = fog.vis
            /\ lastOp' = Call("setVisibility", <<k[1], k[2], level>>, Undefined)
            /\ UNCHANGED <<gridShape, session, act1, marker>>

Reveal ==
    \E k \in FogCoords, radius \in Radii :
        LET fog == reveal(visibility, cells, k[1], k[2], radius)
        IN  /\ cells' = fog.cells
            /\ visibility' = fog.vis
            /\ lastOp' = IF fog.err = NoError
                         THEN Call("reveal", <<k[1], k[2], radius>>, Undefined)
                         ELSE Thrown("reveal", <<k[1], k[2], radius>>, fog.err)
            /\ UNCHANGED <<gridShape, session, act1, marker>>

Cover ==
    \E k \in FogCoords, radius \in Radii :
        LET fog == cover(visibility, cells, k[1], k[2], radius)
        IN  /\ cells' = fog.cells
            /\ visibility' = fog.vis
            /\ lastOp' = IF fog.err = NoError
                         THEN Call("cover", <<k[1], k[2], radius>>, Undefined)
                         ELSE Thrown("cover", <<k[1], k[2], radius>>, fog.err)
            /\ UNCHANGED <<gridShape, session, act1, marker>>

\* revealRandom returns null when no cell is hidden, else the cell it drew
RevealRandom ==
    \/ /\ hiddenHexes(cells) = {}
       /\ lastOp' = Call("revealRandom", <<>>, Null)
       /\ UNCHANGED <<gridShape, session, act1, cells, visibility, marker>>
    \/ \E k \in hiddenHexes(cells) :
           LET fog == revealRandom(visibility, cells, k)
           IN  /\ cells' = fog.cells
               /\ visibility' = fog.vis
               /\ lastOp' = Call("revealRandom", <<>>, k)
               /\ UNCHANGED <<gridShape, session, act1, marker>>

FogReset ==
    \E allRevealed \in BOOLEAN :
        LET fog == fogReset(visibility, cells, allRevealed)
        IN  /\ cells' = fog.cells
            /\ visibility' = fog.vis
            /\ lastOp' = Call("FogSystem.reset", <<allRevealed>>, Undefined)
            /\ UNCHANGED <<gridShape, session, act1, marker>>

----------------------------------------------------------------------------
(* Operations of the marker *)

\* positions handed to setPosition: a point of cell (0, 0) beside its centre,
\* a point far off the canvas
BallPlaces ==
    LET c == hexToPixel(sideLength, 0, 0)
    IN  {<<c[1] + 3 * PX, c[2]>>, <<-4 * hexRadius(sideLength), c[2]>>}

\* a frame of the driver: the wall clock has moved on by one of ClockSteps
\* (the clock of the model stops at MaxNow) and ball.update(dt) is called
UpdateWith(dts) ==
    \E dt \in dts, kick \in NoiseKicks(ball.noiseLevel), adv \in ClockSteps :
        LET clock == Min(now + adv, MaxNow)
        IN  /\ frames # 0
            /\ frames' = IF frames = Unbounded THEN Unbounded ELSE frames - 1
            /\ now' = clock
            /\ ball' = update(ball, cells, cols, rows, sideLength, dt, clock, kick)
            /\ lastOp' = Call("update", <<dt>>, Undefined)
            /\ UNCHANGED <<gridShape, session, act1, cells, visibility, impulses>>

\* ball.update(dt) with a dt measured by the driver
Update == UpdateWith(DtInputs)

\* ball.update() with the default dt
UpdateDefault == UpdateWith({FRAME_DT})

ApplyImpulse ==
    \E f \in impulses :
        /\ ball' = applyImpulse(ball, f[1], f[2])
        /\ impulses' = impulses \ {f}
        /\ lastOp' = Call("applyImpulse", f, Undefined)
        /\ UNCHANGED <<gridShape, session, act1, cells, visibility, now, frames>>

\* a point 200 pixels left of the canvas, from where the pull toward the
\* canvas moves the ball for more than METRIC_SAMPLES frames
FarPlaces == {<<-200 * PX, hexToPixel(sideLength, 0, 0)[2]>>}

SetPositionTo(places) ==
    \E p \in places :
        /\ ball' = setPosition(ball, p[1], p[2])
        /\ lastOp' = Call("setPosition", p, Undefined)
        /\ UNCHANGED <<gridShape, session, act1, cells, visibility, now, impulses, frames>>

SetPosition == SetPositionTo(BallPlaces)

SetPositionFar == SetPositionTo(FarPlaces)

MoveToHex ==
    \E k \in DOMAIN cells :
        /\ ball' = moveToHex(ball, cells, sideLength, k[1], k[2])
        /\ lastOp' = Call("moveToHex", k, Undefined)
        /\ UNCHANGED <<gridShape, session, act1, cells, visibility, now, impulses, frames>>

\* moveTo reads Date.now(); only the time elapsed since that reading is ever
\* used, so the clock of the model is set to start at the call
MoveTo ==
    \E k \in MoveTargets, duration \in Durations :
        /\ ball' = moveTo(ball, sideLength, k[1], k[2], duration, 0)
        /\ now' = 0
        /\ lastOp' = Call("moveTo", <<k[1], k[2], duration>>, Undefined)
        /\ UNCHANGED <<gridShape, session, act1, cells, visibility, impulses, frames>>

\* moveTo under the callers' discipline: no move is in progress
MoveToAtRest == ~isMovingDiscrete(ball) /\ MoveTo

BallReset ==
    \E k \in DOMAIN cells :
        /\ ball' = ballReset(ball, sideLength, k[1], k[2])
        /\ impulses' = Impulses
        /\ lastOp' = Call("Ball.reset", k, Undefined)
        /\ UNCHANGED <<gridShape, session, act1, cells, visibility, now, frames>>

\* ball.isDiscreteMode = true, as Act 1 writes it after binding the ball
SetDiscreteMode ==
    /\ ~ball.isDiscreteMode
    /\ ball' = [ball EXCEPT !.isDiscreteMode = TRUE]
    /\ lastOp' = Call("isDiscreteMode", <<TRUE>>, Undefined)
    /\ UNCHANGED <<gridShape, session, act1, cells, visibility, now, impulses, frames>>

----------------------------------------------------------------------------
(* Act 1: clicks and animation frames *)

\* the points clicked: the centre of every cell, and a point off the canvas
ClickPoints ==
    {hexToPixel(sideLength, k[1], k[2]) : k \in DOMAIN cells}
        \cup {<<-200 * PX, 0>>}

\* a click on the canvas: _handleHexClick(clickX, clickY)
Act1Click ==
    \E p \in ClickPoints :
        \E st \in {handleHexClick(Handler(act1, ball), cells, sideLength,
                                  p[1], p[2], now)} :
            /\ ball' = st.ball
            /\ act1' = st.act
            /\ lastOp' = Call("_handleHexClick", p, st.invoked)
            /\ UNCHANGED <<gridShape, session, cells, visibility, now, impulses, frames>>

\* an animation frame, adv ms after the one before: _update(dt)
Act1FrameAfter(steps) ==
    \E adv \in steps :
        \E st \in {act1Update(act1, ball, cells, cols, rows, sideLength,
                              adv, now + adv)} :
            /\ frames # 0
            /\ frames' = frames - 1
            /\ now' = now + adv
            /\ ball' = st.ball
            /\ act1' = st.act
            /\ lastOp' = Call("_update", <<adv>>, st.invoked)
            /\ UNCHANGED <<gridShape, session, cells, visibility, impulses>>

Act1Frame == Act1FrameAfter(Act1Steps)

\* reset() of Act 1: the landscape is rebuilt and the ball put back on the
\* start cell, in discrete mode
Act1Reset ==
    /\ cells' = buildLandscape(reset(cells), Act1Valley[1], Act1Valley[2])
    /\ ball' = [ballReset(ball, sideLength, Act1Start[1], Act1Start[2])
                   EXCEPT !.isDiscreteMode = TRUE]
    /\ act1' = act1Reset(act1)
    /\ lastOp' = Call("Act1.reset", <<>>, Undefined)
    /\ UNCHANGED <<gridShape, session, visibility, now, impulses, frames>>

----------------------------------------------------------------------------
(* Act 5: the buttons, the canvas, and the timers of the crisis rounds *)

\* what a handler of Act 5 leaves behind
Leaves5(st, op, args) ==
    /\ act5' = st.act
    /\ cells' = st.cells
    /\ visibility' = st.vis
    /\ ball' = st.ball
    /\ lastOp' = IF Failed(st) THEN [Thrown(op, args, st.err) EXCEPT !.ret = st.events]
                 ELSE Call(op, args, st.events)
    /\ UNCHANGED <<gridShape, act1, app, now, frames>>

Spent(a) ==
    a.actionsUsed["deepen"] + a.actionsUsed["widen"]
        + a.actionsUsed["scout"] + a.actionsUsed["barrier"]

\* what Math.random() decides in a crisis round: an N-shock with its force,
\* or a B-erosion
Randoms == {<<TRUE, f>> : f \in impulses} \cup {<<FALSE, Zero2>>}

\* a click on an action button: _selectAction(action, cost)
Act5Select ==
    \E action \in ActionNames :
        /\ Spent(act5) < MaxPurchases
        /\ act5' = selectAction(act5, action, actionCost(action))
        /\ lastOp' = Call("_selectAction", <<action, actionCost(action)>>, <<>>)
        /\ UNCHANGED <<gridShape, act1, app, cells, visibility, marker>>

\* a click on the canvas while a cell is awaited: _handleHexSelection(x, y)
Act5Click ==
    \E p \in ClickPoints :
        \E st \in {handleHexSelection(Handler5(act5, cells, visibility, ball),
                                      sideLength, p[1], p[2])} :
            /\ act5.awaitingHexSelection
            /\ impulses' = impulses
            /\ Leaves5(st, "_handleHexSelection", p)

\* the ready button: _startCrisisPhase(), with what Math.random() decides
Act5Ready ==
    \E r \in Randoms :
        \E st \in {startCrisisPhase(Handler5(act5, cells, visibility, ball),
                                    r[1], r[2])} :
            /\ impulses' = IF "shock" \in SeqToSet(st.events)
                           THEN impulses \ {r[2]} ELSE impulses
            /\ Leaves5(st, "_startCrisisPhase", <<>>)

\* the timer of a crisis round fires
Act5Timer ==
    \E r \in Randoms :
        \E st \in {crisisTimer(Handler5(act5, cells, visibility, ball),
                               r[1], r[2])} :
            /\ act5.timers > 0
            /\ impulses' = IF "shock" \in SeqToSet(st.events)
                           THEN impulses \ {r[2]} ELSE impulses
            /\ Leaves5(st, "crisisTimer", <<>>)

Act5Stop ==
    /\ act5' = act5Stop(act5)
    /\ lastOp' = Call("Act5.stop", <<>>, <<>>)
    /\ UNCHANGED <<gridShape, act1, app, cells, visibility, marker>>

Act5Reset ==
    \E st \in {act5Reset(Handler5(act5, cells, visibility, ball),
                         Act5Start[1], Act5Start[2])} :
        /\ impulses' = impulses
        /\ Leaves5(st, "Act5.reset", <<>>)

----------------------------------------------------------------------------
(* The application: navigation between the acts *)

\* the start button and the continue buttons: _startAct(actNumber)
StartAct ==
    \E n \in ActNumbers :
        \E a \in {startAct(app, n)} :
            /\ app' = a
            /\ lastOp' = IF a.err # NoError
                         THEN Thrown("_startAct", <<n>>, a.err)
                         ELSE Call("_startAct", <<n>>, Undefined)
            /\ UNCHANGED <<gridShape, act1, act5, cells, visibility, marker>>

\* the restart button: _restart()
Restart ==
    \E a \in {restart(app)} :
        /\ app' = a
        /\ lastOp' = IF a.err # NoError
                     THEN Thrown("_restart", <<>>, a.err)
                     ELSE Call("_restart", <<>>, Undefined)
        /\ UNCHANGED <<gridShape, act1, act5, cells, visibility, marker>>

-----------------------------------------------------------------------------
(* Queries: the grid is read, the result is kept in lastOp *)

\* points handed to the pixel queries: every cell centre, the canvas corners,
\* points just outside the canvas and points far outside it
ProbePoints ==
    LET dims == getCanvasDimensions(cols, rows, sideLength)
        far == 3 * hexRectangleHeight(sideLength)
    IN  {hexToPixel(sideLength, k[1], k[2]) : k \in DOMAIN cells}
        \cup {<<0, 0>>, <<-PX, -PX>>, <<dims[1] + PX, dims[2] + PX>>,
              <<-far, -far>>, <<dims[1] + far, PX>>, <<PX, dims[2] + far>>}

GetHex ==
    \E k \in Coords :
        /\ lastOp' = Call("getHex", k, getHex(cells, k[1], k[2]))
        /\ UNCHANGED <<gridShape, session, act1, cells, visibility, marker>>

GetNeighbors ==
    \E k \in Coords :
        /\ lastOp' = Call("getNeighbors", k, getNeighbors(cells, k[1], k[2]))
        /\ UNCHANGED <<gridShape, session, act1, cells, visibility, marker>>

HexToPixel ==
    \E k \in Coords :
        /\ lastOp' = Call("hexToPixel", k, hexToPixel(sideLength, k[1], k[2]))
        /\ UNCHANGED <<gridShape, session, act1, cells, visibility, marker>>

PixelToHex ==
    \E p \in ProbePoints :
        /\ lastOp' = Call("pixelToHex", p,
                          pixelToHex(cells, sideLength, p[1], p[2]))
        /\ UNCHANGED <<gridShape, session, act1, cells, visibility, marker>>

GetHexAtPixel ==
    \E p \in ProbePoints :
        /\ lastOp' = Call("getHexAtPixel", p,
                          getHexAtPixel(cells, sideLength, p[1], p[2]))
        /\ UNCHANGED <<gridShape, session, act1, cells, visibility, marker>>

CalculateGradient ==
    \E k \in Coords :
        /\ lastOp' = Call("calculateGradient", k,
                          calculateGradient(cells, sideLength, k[1], k[2]))
        /\ UNCHANGED <<gridShape, session, act1, cells, visibility, marker>>

\* ball positions handed to getCenteringForce: the centre of cell (0, 0), a
\* point a quarter pixel from it, a point of the cell's rim, a point off the canvas
BallPoints ==
    LET c == hexToPixel(sideLength, 0, 0)
    IN  {c, <<c[1] + PX \div 4, c[2]>>, <<c[1] + hexRadius(sideLength), c[2]>>,
         <<-PX, -PX>>}

GetCenteringForce ==
    \E k \in Coords, p \in BallPoints :
        /\ lastOp' = Call("getCenteringForce", <<k[1], k[2], p[1], p[2]>>,
                          getCenteringForce(cells, sideLength, k[1], k[2],
                                            p[1], p[2], CENTERING_STRENGTH))
        /\ UNCHANGED <<gridShape, session, act1, cells, visibility, marker>>

----------------------------------------------------------------------------
(* Specifications *)

\* elevation writes through the two clamped setters
InitElev == \E sz \in OpGridSizes : Construct(sz[1], sz[2], 25)

NextElev == SetElevation \/ ModifyElevation \/ MarkRuin

SpecElev == InitElev /\ [][NextElev]_vars

\* every terrain operation of the grid
NextTerrain ==
    \/ SetElevation
    \/ ModifyElevation
    \/ CreateValley
    \/ MarkRuin
    \/ Reset

SpecTerrain == InitElev /\ [][NextTerrain]_vars

\* valleys authored on grids that hold ruins and earlier valleys
NextValley == CreateValley \/ MarkRuin \/ Reset

SpecValley == InitElev /\ [][NextValley]_vars

\* erosion ticks between terrain edits
NextErosion == SetElevation \/ MarkRuin \/ ApplyErosion

SpecErosion == InitElev /\ [][NextErosion]_vars

\* edits, fog and reset
NextReset == SetElevation \/ MarkRuin \/ CoverAll \/ RevealAll \/ Reset

SpecReset == InitElev /\ [][NextReset]_vars

\* a grid of any size up to MaxCols x MaxRows, fresh or with one authored
\* valley whose centre is a ruin; then neighbour queries
InitTopo ==
    \E nc \in 1 .. MaxCols, nr \in 1 .. MaxRows :
        \E k \in ((0 .. nc - 1) \X (0 .. nr - 1)) \cup {<<-1, -1>>} :
            LET fresh == initializeVisibility(EmptyMap, InitGrid(nc, nr), TRUE).cells
                shaped == markRuin(createValley(fresh, k[1], k[2], -2), k[1], k[2])
            IN  /\ cols = nc
                /\ rows = nr
                /\ sideLength = 25
                /\ cells = shaped
                /\ visibility = initializeVisibility(EmptyMap, InitGrid(nc, nr), TRUE).vis
                /\ ball = newBall(25, 0, 0)
                /\ now = 0
                /\ impulses = Impulses
                /\ frames = Unbounded
                /\ act1 = newAct1
                /\ act5 = newAct5(FALSE)
                /\ app = newApp
                /\ lastOp = Call("new", <<nc, nr, 25>>, Undefined)

NextTopo == GetNeighbors

SpecTopo == InitTopo /\ [][NextTopo]_vars

\* a fresh grid of any size and side length; then coordinate conversions
InitGeo ==
    \E nc \in 1 .. MaxCols, nr \in 1 .. MaxRows, s \in SideLengths :
        Construct(nc, nr, s)

NextGeo == HexToPixel \/ PixelToHex \/ GetHexAtPixel

SpecGeo == InitGeo /\ [][NextGeo]_vars

\* every coordinate-based accessor, with coordinates inside and outside the grid
InitAccess == \E sz \in OpGridSizes, s \in SideLengths : Construct(sz[1], sz[2], s)

NextAccess ==
    \/ GetHex
    \/ GetHexAtPixel
    \/ SetElevation
    \/ ModifyElevation
    \/ GetNeighbors
    \/ CalculateGradient
    \/ GetCenteringForce

SpecAccess == InitAccess /\ [][NextAccess]_vars

\* a ball on a flat grid that may hold ruins: every operation of the marker,
\* frames with the default dt, ruins placed and cleared under the ball
InitMarker == ConstructFor(MarkerGrid[1], MarkerGrid[2], 25, MaxFrames)

\* the same under a driver that never stops
InitMarkerForEver == Construct(MarkerGrid[1], MarkerGrid[2], 25)

NextMarker ==
    \/ UpdateDefault
    \/ ApplyImpulse
    \/ SetPosition
    \/ MoveToHex
    \/ MoveTo
    \/ BallReset
    \/ SetDiscreteMode
    \/ MarkRuin
    \/ Reset

SpecMarker == InitMarker /\ [][NextMarker]_vars

\* discrete steps: moveTo while frames pass and update is handed a measured dt
NextDiscrete == SetDiscreteMode \/ MoveTo \/ MoveToHex \/ Update

SpecDiscrete == InitMarker /\ [][NextDiscrete]_vars

\* a ball in either motion mode under a driver that never stops: frames,
\* teleports and re-binding on a flat grid
InitBuffers ==
    \E b \in {newBall(25, 0, 0), act1Ball(25, 0, 0)} :
        ConstructWith(MarkerGrid[1], MarkerGrid[2], 25, b, Unbounded)

NextBuffers ==
    \/ UpdateDefault
    \/ SetPosition
    \/ MoveToHex
    \/ BallReset

SpecBuffers == InitBuffers /\ [][NextBuffers]_vars

\* a ball in either motion mode over a session of MetricFrames frames, with
\* impulses and teleports between the frames
InitMetrics ==
    \E b \in {newBall(25, 0, 0), act1Ball(25, 0, 0)} :
        ConstructWith(MarkerGrid[1], MarkerGrid[2], 25, b, MetricFrames)

NextMetrics ==
    \/ UpdateDefault
    \/ ApplyImpulse
    \/ SetPositionFar
    \/ MoveToHex

SpecMetrics == InitMetrics /\ [][NextMetrics]_vars

\* the overlay's operations on the grids of the terrain specifications
NextFog ==
    \/ CoverAll
    \/ RevealAll
    \/ SetVisibility
    \/ Reveal
    \/ Cover
    \/ RevealRandom
    \/ FogReset

SpecFog == InitElev /\ [][NextFog]_vars

\* the overlay's operations interleaved with the grid's reset
NextSync ==
    \/ CoverAll
    \/ RevealAll
    \/ SetVisibility
    \/ Reveal
    \/ Cover
    \/ RevealRandom
    \/ FogReset
    \/ Reset

SpecSync == InitElev /\ [][NextSync]_vars

\* resets of the grid, the marker and the overlay, and the calls a timer or a
\* frame scheduled before them makes after them: an erosion tick, an impulse,
\* an update, a reveal
NextLate ==
    \/ Reset
    \/ BallReset
    \/ FogReset
    \/ CoverAll
    \/ ApplyErosion
    \/ ApplyImpulse
    \/ UpdateDefault
    \/ Reveal

SpecLate == InitMarker /\ [][NextLate]_vars

\* Act 1 on a row of cells with the valley at its left end and the ball at its
\* right end: clicks between the frames of a session of Act1Frames frames
InitAct1For(sessionFrames) ==
    LET grid == InitGrid(Act1Grid[1], Act1Grid[2])
    IN  /\ cols = Act1Grid[1]
        /\ rows = Act1Grid[2]
        /\ sideLength = 35
        /\ cells = buildLandscape(grid, Act1Valley[1], Act1Valley[2])
        /\ visibility = initializeVisibility(EmptyMap, grid, TRUE).vis
        /\ ball = act1Ball(35, Act1Start[1], Act1Start[2])
        /\ now = 0
        /\ impulses = Impulses
        /\ frames = sessionFrames
        /\ act1 = newAct1
        /\ act5 = newAct5(FALSE)
        /\ app = newApp
        /\ lastOp = Call("Act1.init", <<Act1Grid[1], Act1Grid[2], 35>>, Undefined)

InitAct1 == InitAct1For(Act1Frames)

NextAct1 == Act1Click \/ Act1Frame

SpecAct1 == InitAct1 /\ [][NextAct1]_vars

\* a longer session at a steady frame rate, with restarts of the act between
\* the clicks and the frames
NextPhase == Act1Click \/ Act1FrameAfter(PhaseSteps) \/ Act1Reset

SpecPhase == InitAct1For(PhaseFrames) /\ [][NextPhase]_vars

\* Act 5 on a row of cells with the shallow valley at the ball's cell, and the
\* shocks Math.random() can give. Unbound, it is as init() leaves it: init()
\* stops at its first grid.setRuin, a call of undefined, with the grid built
\* and fog and ball unset. Bound, fog and ball are set, as the handlers of the
\* crisis expect them
InitAct5For(bound, shocks) ==
    LET grid == createValley(InitGrid(Act5Grid[1], Act5Grid[2]),
                             Act5Start[1], Act5Start[2], -1)
    IN  /\ cols = Act5Grid[1]
        /\ rows = Act5Grid[2]
        /\ sideLength = 35
        /\ cells = grid
        /\ visibility = initializeVisibility(EmptyMap, grid, TRUE).vis
        /\ ball = newBall(35, Act5Start[1], Act5Start[2])
        /\ now = 0
        /\ impulses = shocks
        /\ frames = 0
        /\ act1 = newAct1
        /\ act5 = newAct5(bound)
        /\ app = newApp
        /\ lastOp = IF bound
                    THEN Call("Act5.bind", <<Act5Grid[1], Act5Grid[2], 35>>, <<>>)
                    ELSE [Thrown("Act5.init", <<Act5Grid[1], Act5Grid[2], 35>>,
                                 TypeError) EXCEPT !.ret = <<>>]

\* the preparation after init(): purchases, the ready button, restarts
NextPrep == Act5Select \/ Act5Click \/ Act5Ready \/ Act5Reset

SpecPrep == InitAct5For(FALSE, {}) /\ [][NextPrep]_vars

\* the crisis of an act with fog and ball: the ready button, the timers of the
\* rounds, stop and restart
NextCrisis == Act5Ready \/ Act5Timer \/ Act5Stop \/ Act5Reset

SpecCrisis == InitAct5For(TRUE, Act5Shocks) /\ [][NextCrisis]_vars

\* the application from its start page
NextApp == StartAct \/ Restart

SpecApp == Construct(MarkerGrid[1], MarkerGrid[2], 25) /\ [][NextApp]_vars

\* a continuous-mode ball beside a valley, at one of the noise levels, pushed
\* between frames of any measured dt
InitSpeed ==
    \E level \in NoiseLevels :
        LET grid == InitGrid(MarkerGrid[1], MarkerGrid[2])
        IN  /\ cols = MarkerGrid[1]
            /\ rows = MarkerGrid[2]
            /\ sideLength = 25
            /\ cells = createValley(grid, 1, 0, -2)
            /\ visibility = initializeVisibility(EmptyMap, grid, TRUE).vis
            /\ ball = [newBall(25, 0, 0) EXCEPT !.noiseLevel = level]
            /\ now = 0
            /\ impulses = SpeedImpulses
            /\ frames = SpeedFrames
            /\ act1 = newAct1
            /\ act5 = newAct5(FALSE)
            /\ app = newApp
            /\ lastOp = Call("new", <<MarkerGrid[1], MarkerGrid[2], 25>>, Undefined)

NextSpeed == Update \/ ApplyImpulse

SpecSpeed == InitSpeed /\ [][NextSpeed]_vars

\* moves started on a ball in either motion mode, on or off a ruin, under a
\* driver that keeps calling update() while the clock advances
\* the scenario is set up before the first frame, and the move is started
\* within the first MoveBy frames
BeforeFrames(n) == Len(ball.trail) <= n

NextMove ==
    \/ BeforeFrames(MoveBy) /\ MoveToAtRest
    \/ UpdateDefault
    \/ BeforeFrames(0) /\ SetDiscreteMode
    \/ BeforeFrames(0) /\ MarkRuin

SpecMove == InitMarkerForEver /\ [][NextMove]_vars /\ WF_vars(UpdateDefault)

\* a continuous-mode ball put down at rest on a flat grid, with noise 0,
\* under a driver that calls update() on every frame for ever
InitSettle ==
    \E o \in SettleOffsets :
        LET c == hexToPixel(25, 0, 0)
        IN  ConstructWith(MarkerGrid[1], MarkerGrid[2], 25,
                          setPosition(newBall(25, 0, 0),
                                      c[1] + o[1], c[2] + o[2]),
                          Unbounded)

NextSettle == UpdateDefault

SpecSettle == InitSettle /\ [][NextSettle]_vars

----------------------------------------------------------------------------
(* Claims *)

Setters == {"setElevation", "modifyElevation"}

InRange(e) == ELEV_MIN <= e /\ e <= ELEV_MAX

\* the cell a coordinate call of lastOp was aimed at
Target(op) == <<op.args[1], op.args[2]>>

\* C1: under any sequence of setElevation and modifyElevation calls every
\* cell's elevation stays within [-3, 3], and a call leaves the elevation of
\* every terminal (isRuin) cell unchanged.
C1_SettersClampAndSkipRuins ==
    [][lastOp'.op \in Setters =>
          \A k \in DOMAIN cells :
              /\ InRange(cells'[k].elevation)
              /\ cells[k].isRuin => cells'[k].elevation = cells[k].elevation]_vars

\* C1 witness: modifyElevation(+7) was called on a ruin whose elevation had
\* been clamped to -3 before it became a ruin, and the elevation is still -3.
C1_Witness ==
    /\ lastOp.op = "modifyElevation"
    /\ lastOp.args[3] = 7
    /\ Target(lastOp) \in DOMAIN cells
    /\ cells[Target(lastOp)].isRuin
    /\ cells[Target(lastOp)].elevation = ELEV_MIN

\* C2: in every state reachable by Grid operations (construction,
\* setElevation, modifyElevation, createValley with any depth, reset) every
\* cell's elevation lies in [-3, 3].
C2_ElevationInRange == \A k \in DOMAIN cells : InRange(cells[k].elevation)

\* C3: no terrain operation (setElevation, modifyElevation, createValley with
\* the terminal cell as centre or as neighbour) changes a terminal cell's
\* elevation.
C3_RuinNotEditable ==
    [][lastOp'.op \in Setters \cup {"createValley"} =>
          \A k \in DOMAIN cells :
              cells[k].isRuin => cells'[k].elevation = cells[k].elevation]_vars

\* C4: adjacency is symmetric on every grid size: for all in-bounds cells a
\* and b, b is in getNeighbors(a) exactly when a is in getNeighbors(b).
C4_AdjacencySymmetric ==
    \A a \in DOMAIN cells, b \in DOMAIN cells :
        (b \in SeqToSet(getNeighbors(cells, a[1], a[2])))
            <=> (a \in SeqToSet(getNeighbors(cells, b[1], b[2])))

\* C4 witness: on a grid with two columns and two rows the neighbours of the
\* odd-row cell (0, 1) were listed, and they hold the even-row cells (0, 0)
\* and (1, 0).
C4_Witness ==
    /\ lastOp.op = "getNeighbors"
    /\ lastOp.args = <<0, 1>>
    /\ cols >= 2 /\ rows >= 2
    /\ {<<0, 0>>, <<1, 0>>} \subseteq SeqToSet(lastOp.ret)

Abs(x) == IF x >= 0 THEN x ELSE -x

Interior(k) ==
    /\ 0 < k[1] /\ k[1] < cols - 1
    /\ 0 < k[2] /\ k[2] < rows - 1

\* C5: getNeighbors(cell) returns at most six cells, all in bounds, all
\* distinct, none the cell itself, none further than one column and one row
\* away (no wraparound); an interior cell has exactly six; and the result is
\* the one computed on a fresh grid of the same size, whatever the elevations
\* and terminal flags.
C5_NeighborsWellFormed ==
    (lastOp.op = "getNeighbors" /\ lastOp.args \in DOMAIN cells) =>
        LET k == lastOp.args
            n == lastOp.ret
        IN  /\ Len(n) <= 6
            /\ \A i \in 1 .. Len(n) :
                  /\ n[i] \in DOMAIN cells
                  /\ n[i] # k
                  /\ Abs(n[i][1] - k[1]) <= 1
                  /\ Abs(n[i][2] - k[2]) <= 1
            /\ \A i, j \in 1 .. Len(n) : i # j => n[i] # n[j]
            /\ Interior(k) => Len(n) = 6
            /\ n = getNeighbors(InitGrid(cols, rows), k[1], k[2])

\* C5 witness: the six neighbours of the interior cell (1, 1) were listed on
\* a grid that holds a ruin with a valley around it.
C5_Witness ==
    /\ lastOp.op = "getNeighbors"
    /\ lastOp.args = <<1, 1>>
    /\ Interior(<<1, 1>>)
    /\ Len(lastOp.ret) = 6
    /\ \E k \in DOMAIN cells : cells[k].isRuin /\ cells[k].elevation = -2

\* C6: for every in-bounds cell (col, row), pixelToHex and getHexAtPixel
\* applied to hexToPixel(col, row) give that same cell.
C6_RoundTrip ==
    \A k \in DOMAIN cells :
        LET p == hexToPixel(sideLength, k[1], k[2])
        IN  /\ (lastOp.op = "pixelToHex" /\ lastOp.args = p) => lastOp.ret = k
            /\ (lastOp.op = "getHexAtPixel" /\ lastOp.args = p) =>
                   /\ lastOp.ret = cells[k]
                   /\ lastOp.ret.col = k[1]
                   /\ lastOp.ret.row = k[2]

\* C6 witness: getHexAtPixel was handed the centre of the odd-row cell (1, 1)
\* of a grid of side length 35 and returned that cell.
C6_Witness ==
    /\ lastOp.op = "getHexAtPixel"
    /\ sideLength = 35
    /\ <<1, 1>> \in DOMAIN cells
    /\ lastOp.args = hexToPixel(sideLength, 1, 1)
    /\ lastOp.ret = cells[<<1, 1>>]

\* C7: applyErosion(0) is a no-op on the grid: the call completes normally
\* and the elevation of every cell is unchanged.
C7_ErosionZeroIsNoOp ==
    [][(lastOp'.op = "applyErosion" /\ lastOp'.args = <<0>>) =>
          /\ lastOp'.err = NoError
          /\ \A k \in DOMAIN cells :
                cells'[k].elevation = cells[k].elevation]_vars

C9_ResetRestores ==
    lastOp.op = "reset" =>
        /\ DOMAIN cells = (0 .. cols - 1) \X (0 .. rows - 1)
        /\ \A k \in DOMAIN cells :
              /\ cells[k].col = k[1]
              /\ cells[k].row = k[2]
              /\ cells[k].elevation = 0
              /\ ~cells[k].isRuin
              /\ cells[k].isRevealed

\* C9 witness: reset() ran after coverAll() (the overlay still holds level 0)
\* and the cells are revealed again.
C9_Witness ==
    /\ lastOp.op = "reset"
    /\ \E x \in DOMAIN visibility : visibility[x] = 0
    /\ \A k \in DOMAIN cells : cells[k].isRevealed

OutOfRange(k) == k \notin DOMAIN cells

\* a point outside the canvas rectangle
OutsideCanvas(p) ==
    LET dims == getCanvasDimensions(cols, rows, sideLength)
    IN  p[1] < 0 \/ p[2] < 0 \/ p[1] > dims[1] \/ p[2] > dims[2]

\* a point two cell spacings or more outside the canvas rectangle
FarOutside(p) ==
    LET dims == getCanvasDimensions(cols, rows, sideLength)
    IN  \/ p[1] <= -2 * xSpacing(sideLength)
        \/ p[2] <= -2 * ySpacing(sideLength)
        \/ p[1] >= dims[1] + 2 * xSpacing(sideLength)
        \/ p[2] >= dims[2] + 2 * ySpacing(sideLength)

\* C10: with out-of-range coordinates getHex returns null, getHexAtPixel of a
\* point outside the grid returns null, setElevation and modifyElevation
\* change nothing, getNeighbors returns no cells, calculateGradient and
\* getCenteringForce return the zero vector.
C10_OutOfRangeAbsent ==
    [][LET op == lastOp'.op
           a == lastOp'.args
           r == lastOp'.ret
       IN  /\ (op = "getHex" /\ OutOfRange(a)) => r = Null
           /\ (op = "getHexAtPixel" /\ OutsideCanvas(a)) => r = Null
           /\ (op \in Setters /\ OutOfRange(<<a[1], a[2]>>)) => cells' = cells
           /\ (op = "getNeighbors" /\ OutOfRange(a)) => r = <<>>
           /\ (op = "calculateGradient" /\ OutOfRange(a)) => r = Zero2
           /\ (op = "getCenteringForce" /\ OutOfRange(<<a[1], a[2]>>))
                 => r = Zero2]_vars

\* C10 as amended: with out-of-range coordinates getHex returns null,
\* setElevation and modifyElevation change nothing, calculateGradient and
\* getCenteringForce return the zero vector; getNeighbors returns the
\* in-bounds cells adjacent to the coordinates (none when no cell is
\* adjacent); getHexAtPixel returns null for a point two cell spacings or more
\* outside the canvas, and for a nearer outside point null or a cell of the
\* grid.
C10_OutOfRangeAmended ==
    [][LET op == lastOp'.op
           a == lastOp'.args
           r == lastOp'.ret
       IN  /\ (op = "getHex" /\ OutOfRange(a)) => r = Null
           /\ (op = "getHexAtPixel" /\ FarOutside(a)) => r = Null
           /\ (op = "getHexAtPixel" /\ OutsideCanvas(a)) =>
                 (r = Null \/ \E k \in DOMAIN cells : r = cells[k])
           /\ (op \in Setters /\ OutOfRange(<<a[1], a[2]>>)) => cells' = cells
           /\ (op = "getNeighbors" /\ OutOfRange(a)) =>
                 /\ \A i \in 1 .. Len(r) :
                       /\ r[i] \in DOMAIN cells
                       /\ Abs(r[i][1] - a[1]) <= 1
                       /\ Abs(r[i][2] - a[2]) <= 1
                 /\ (\A k \in DOMAIN cells :
                        Abs(k[1] - a[1]) > 1 \/ Abs(k[2] - a[2]) > 1) => r = <<>>
           /\ (op = "calculateGradient" /\ OutOfRange(a)) => r = Zero2
           /\ (op = "getCenteringForce" /\ OutOfRange(<<a[1], a[2]>>))
                 => r = Zero2]_vars

\* C10 witness: getNeighbors(-1, 0), a coordinate beside the grid, returned
\* the cell (0, 0).
C10_Witness ==
    /\ lastOp.op = "getNeighbors"
    /\ lastOp.args = <<-1, 0>>
    /\ lastOp.ret = << <<0, 0>> >>

\* the cell under the ball's position, or Null
UnderBall == getCurrentHex(ball, cells, sideLength)

OnRuin == UnderBall # Null /\ UnderBall.isRuin

Position(b) == <<b.x, b.y>>

Velocity(b) == <<b.vx, b.vy>>

\* C11: if the cell under the marker's position is terminal, the next update
\* puts the marker in the terminal state without moving it, and every later
\* update leaves position and velocity unchanged, in either motion mode.
C11_TerminalOnNextUpdate ==
    [][lastOp'.op = "update" =>
          /\ OnRuin => (ball'.isInRuin /\ Position(ball') = Position(ball))
          /\ ball.isInRuin =>
                (Position(ball') = Position(ball)
                    /\ Velocity(ball') = Velocity(ball))]_vars

\* C12: the terminal flag is set only by an update step that starts with the
\* marker's position mapping to a terminal cell; no update over a
\* non-terminal cell or outside the grid and no applyImpulse, setPosition,
\* moveToHex or moveTo sets it.
C12_TerminalOnlyByUpdateOnRuin ==
    [][(~ball.isInRuin /\ ball'.isInRuin) =>
          (lastOp'.op = "update" /\ OnRuin)]_vars

\* C12 witness: an update that started over a terminal cell has set the flag,
\* after the ball had been moved onto that cell by moveToHex.
C12_Witness ==
    /\ lastOp.op = "update"
    /\ ball.isInRuin
    /\ OnRuin
    /\ Position(ball) = hexToPixel(sideLength, 1, 0)

\* C13: the terminal state is absorbing: once isInRuin is true it stays true
\* under update, applyImpulse, setPosition, moveToHex, moveTo and edits of
\* the grid; only Ball.reset clears it, and it does.
C13_TerminalAbsorbing ==
    [][/\ (ball.isInRuin /\ ~ball'.isInRuin) => lastOp'.op = "Ball.reset"
       /\ lastOp'.op = "Ball.reset" => ~ball'.isInRuin]_vars

\* C13 witness: update ran on a terminal marker whose cell is no longer
\* terminal (the grid was reset), and the marker is still terminal.
C13_Witness ==
    /\ lastOp.op = "update"
    /\ ball.isInRuin
    /\ UnderBall # Null
    /\ ~UnderBall.isRuin

\* C14: in discrete mode, after moveTo(target, duration) a sequence of
\* update(dt) calls whose dt sum to the duration leaves the marker at the
\* target's centre with velocity (0, 0) and isMovingDiscrete() false, and
\* before the sum reaches the duration isMovingDiscrete() is true; stated
\* for the sequence of one update that follows the moveTo.
C14_DiscreteMoveByDt ==
    [][(lastOp.op = "moveTo" /\ lastOp'.op = "update" /\ ball.isDiscreteMode
            /\ ~ball.isInRuin) =>
          LET dt == lastOp'.args[1]
              duration == lastOp.args[3]
              target == hexToPixel(sideLength, lastOp.args[1], lastOp.args[2])
          IN  IF dt >= 100 * duration
              THEN /\ Position(ball') = target
                   /\ Velocity(ball') = Zero2
                   /\ ~isMovingDiscrete(ball')
              ELSE isMovingDiscrete(ball')]_vars

\* C15: whenever a discrete move is in progress (isMovingDiscrete() is true)
\* an update applies no continuous-mode force: the velocity is left as it is
\* (or zeroed when the move completes) and the position changes only along
\* the interpolation from source to target, however the move was started.
C15_NoForcesWhileMoving ==
    [][(isMovingDiscrete(ball) /\ lastOp'.op = "update") =>
          /\ Velocity(ball') \in {Velocity(ball), Zero2}
          /\ Position(ball') \in
                {Position(ball),
                 Position(updateDiscrete(ball, lastOp'.args[1], now'))}]_vars

\* buffer new is buffer old after receiving e under capacity cap: e is the
\* newest entry, the order of the others is kept, and the oldest entry alone
\* is gone when old was full
Received(old, new, e, cap) ==
    IF Len(old) < cap THEN new = old \o <<e>>
    ELSE new = SubSeq(old, 2, Len(old)) \o <<e>>

\* C16: after any sequence of update, setPosition, moveToHex and reset calls
\* the trail holds at most 60 positions and the history at most 120, in
\* insertion order; an update that performs a step appends the marker's
\* current position to both, evicting exactly the oldest entry of a full
\* buffer.
C16_BuffersCapped ==
    [][/\ Len(ball'.trail) <= TRAIL_LENGTH
       /\ Len(ball'.positionHistory) <= historyMaxLength
       /\ (lastOp'.op = "update" /\ ~ball'.isInRuin) =>
             /\ Received(ball.trail, ball'.trail,
                         Point(ball'.x, ball'.y), TRAIL_LENGTH)
             /\ Received(ball.positionHistory, ball'.positionHistory,
                         Point(ball'.x, ball'.y), historyMaxLength)]_vars

\* C16 witness: an update has pushed onto full buffers that hold different
\* positions, so the eviction of the oldest entry is visible.
C16_Witness ==
    /\ lastOp.op = "update"
    /\ Len(ball.trail) = TRAIL_LENGTH
    /\ Len(ball.positionHistory) = historyMaxLength
    /\ ball.trail[1] # ball.trail[2]
    /\ ball.positionHistory[1] # ball.positionHistory[historyMaxLength]
    /\ ball.positionHistory[historyMaxLength] = Point(ball.x, ball.y)

\* C17: in every reachable marker state, for arbitrary sequences of
\* impulses, teleports and updates, oscillationAmplitude and recoveryRate lie
\* in [0, 1], also when an impulse has pushed the speed above MAX_VELOCITY.
C17_MetricsInUnitRange ==
    /\ ball.oscillationAmplitude >= 0
    /\ ball.oscillationAmplitude <= FX
    /\ ball.recoveryRate >= 0
    /\ ball.recoveryRate <= FX

\* C17 witness: the metrics were computed by an update on a marker whose
\* speed an impulse had pushed above MAX_VELOCITY.
C17_Witness ==
    /\ lastOp.op = "update"
    /\ Len(ball.positionHistory) >= METRIC_SAMPLES
    /\ speed2(ball) > MAX_VELOCITY * MAX_VELOCITY
    /\ ball.recoveryRate = 0

\* ball.isSettled(0.5)
Settled == isSettled(ball, 500)

\* what the next continuous-mode step of a ball on a fixed grid with noise 0
\* depends on
Motion(b) == <<b.x, b.y, b.vx, b.vy>>

\* the ball after n more frames of the driver, each calling update()
RECURSIVE afterFrames(_, _)
afterFrames(b, n) ==
    IF n = 0 THEN b
    ELSE Apply(LAMBDA next : afterFrames(next, n - 1),
               update(b, cells, cols, rows, sideLength, FRAME_DT, now, 0))

\* C18: a marker in continuous mode with noise 0 and zero initial velocity,
\* placed anywhere on a region of equal elevation, reaches isSettled(0.5)
\* within a bounded number of update ticks and stays settled on every later
\* tick.  A motion state that comes back after p ticks comes back every p
\* ticks for ever (the step is a function of the motion state), so the claim
\* requires every such state to be settled.
C18_SettlesForGood ==
    \A p \in 1..MaxPeriod :
        (/\ ~ball.isDiscreteMode
         /\ ball.noiseLevel = 0
         /\ Motion(afterFrames(ball, p)) = Motion(ball)) => Settled

\* C19: for every in-bounds cell c, after coverAll() followed by
\* reveal(c, 0), isRevealed(c) is true and isRevealed(d) is false for every
\* other grid cell d.
C19_RevealExactlyOne ==
    [][(/\ lastOp.op = "coverAll"
        /\ lastOp'.op = "reveal"
        /\ lastOp'.args[3] = 0
        /\ <<lastOp'.args[1], lastOp'.args[2]>> \in DOMAIN cells) =>
          \A d \in DOMAIN cells :
              isRevealed(visibility', d[1], d[2])
                  <=> (d = <<lastOp'.args[1], lastOp'.args[2]>>)]_vars

\* C20: in every state reachable by construction and any sequence of overlay
\* operations with arbitrary coordinates, the visibility map holds exactly
\* one entry per grid cell, keyed by that cell's coordinates.
C20_OneEntryPerCell == DOMAIN visibility = DOMAIN cells

\* C21: in every state reachable by overlay operations and Grid operations
\* (Grid.reset included), for every grid cell, cell.isRevealed is true if and
\* only if FogSystem.isRevealed(cell) is.
C21_OverlayAndFlagAgree ==
    \A k \in DOMAIN cells :
        cells[k].isRevealed <=> isRevealed(visibility, k[1], k[2])

\* the cells at hex distance at most r from the cells of S, under the
\* grid's adjacency
RECURSIVE Disc(_, _, _)
Disc(g, S, r) ==
    IF r <= 0 THEN S
    ELSE Disc(g, S \cup UNION {SeqToSet(getNeighbors(g, k[1], k[2])) : k \in S},
              r - 1)

\* the centre of the reveal or cover call that lastOp records
Centre(op) == <<op.args[1], op.args[2]>>

\* C22: for an in-bounds centre c and radius r >= 0, reveal(c, r) sets the
\* disclosure to 1, and cover(c, r) to 0, for exactly the in-bounds cells at
\* hex distance at most r from c, and leaves every other cell's disclosure
\* unchanged.
C22_RevealCoverDisc ==
    [][(/\ lastOp'.op \in {"reveal", "cover"}
        /\ Centre(lastOp') \in DOMAIN cells
        /\ lastOp'.args[3] >= 0) =>
          \A d \in DOMAIN cells :
              getVisibility(visibility', d[1], d[2]) =
                  IF d \in Disc(cells, {Centre(lastOp')}, lastOp'.args[3])
                  THEN (IF lastOp'.op = "reveal" THEN VISIBLE ELSE HIDDEN)
                  ELSE getVisibility(visibility, d[1], d[2])]_vars

\* C23: revealRandom, called while at least one cell is hidden, returns a
\* cell that was hidden before the call and is revealed after it, and the
\* number of hidden cells drops by exactly one; called while no cell is
\* hidden it returns null and changes nothing.
C23_RevealRandomRevealsOne ==
    [][lastOp'.op = "revealRandom" =>
          IF hiddenHexes(cells) # {}
          THEN /\ lastOp'.ret \in hiddenHexes(cells)
               /\ cells'[lastOp'.ret].isRevealed
               /\ Cardinality(hiddenHexes(cells')) =
                      Cardinality(hiddenHexes(cells)) - 1
          ELSE /\ lastOp'.ret = Null
               /\ UNCHANGED <<cells, visibility>>]_vars

\* C24: getRevealedPercentage() is 100 times the number of grid cells whose
\* isRevealed flag is true over the number of grid cells, and
\* getHiddenCount() + getRevealedCount() is the number of grid cells.
C24_CountsCoverTheGrid ==
    LET n == Cardinality(DOMAIN cells)
        shown == Cardinality({k \in DOMAIN cells : cells[k].isRevealed})
        pct == getRevealedPercentage(visibility)
    IN  /\ pct.num * n = 100 * shown * pct.den
        /\ getHiddenCount(visibility) + getRevealedCount(visibility) = n

\* C25: reveal and cover complete without error for every centre and every
\* integer radius; an out-of-range centre changes nothing, and a negative
\* radius changes at most the centre cell.
C25_RevealCoverNeverThrow ==
    [][lastOp'.op \in {"reveal", "cover"} =>
          /\ lastOp'.err = NoError
          /\ Centre(lastOp') \notin DOMAIN cells =>
                 UNCHANGED <<cells, visibility>>
          /\ lastOp'.args[3] < 0 =>
                 \A d \in DOMAIN cells \ {Centre(lastOp')} :
                     /\ cells'[d] = cells[d]
                     /\ getVisibility(visibility', d[1], d[2]) =
                            getVisibility(visibility, d[1], d[2])]_vars

\* the cells a createValley call recorded in op is centred on and next to
ValleyCentre(op) == <<op.args[1], op.args[2]>>

ValleyNeighbours(g, op) == SeqToSet(getNeighbors(g, op.args[1], op.args[2]))

\* C26: createValley(center, depth) sets the centre's elevation to depth and
\* every neighbour's elevation to min(its previous elevation, depth + 1), and
\* changes no other cell; on an out-of-range centre it changes no cell that is
\* not adjacent to it.
C26_ValleyLowersEveryNeighbour ==
    [][lastOp'.op = "createValley" =>
          \A k \in DOMAIN cells :
              IF ValleyCentre(lastOp') \in DOMAIN cells
              THEN cells'[k] =
                       IF k = ValleyCentre(lastOp')
                       THEN [cells[k] EXCEPT !.elevation = lastOp'.args[3]]
                       ELSE IF k \in ValleyNeighbours(cells, lastOp')
                       THEN [cells[k] EXCEPT !.elevation =
                                 Min(cells[k].elevation, lastOp'.args[3] + 1)]
                       ELSE cells[k]
              ELSE k \notin ValleyNeighbours(cells, lastOp') =>
                       cells'[k] = cells[k]]_vars

\* C26 as amended: createValley(center, depth) sets the centre's elevation to
\* depth and the elevation of every neighbour that is not a ruin to min(its
\* previous elevation, depth + 1); it changes no ruin among the neighbours and
\* no other cell; on an out-of-range centre it changes no cell that is not
\* adjacent to it.
C26_ValleyAmended ==
    [][lastOp'.op = "createValley" =>
          \A k \in DOMAIN cells :
              IF ValleyCentre(lastOp') \in DOMAIN cells
              THEN cells'[k] =
                       IF k = ValleyCentre(lastOp')
                       THEN [cells[k] EXCEPT !.elevation = lastOp'.args[3]]
                       ELSE IF k \in ValleyNeighbours(cells, lastOp')
                              /\ ~cells[k].isRuin
                       THEN [cells[k] EXCEPT !.elevation =
                                 Min(cells[k].elevation, lastOp'.args[3] + 1)]
                       ELSE cells[k]
              ELSE k \notin ValleyNeighbours(cells, lastOp') =>
                       cells'[k] = cells[k]]_vars

\* C26 witness: createValley on an in-bounds centre lowered a neighbour to
\* depth + 1 and left a higher ruin beside the centre as it was.
C26_Witness ==
    /\ lastOp.op = "createValley"
    /\ ValleyCentre(lastOp) \in DOMAIN cells
    /\ cells[ValleyCentre(lastOp)].elevation = lastOp.args[3]
    /\ \E k \in ValleyNeighbours(cells, lastOp) :
           cells[k].isRuin /\ cells[k].elevation > lastOp.args[3] + 1
    /\ \E k \in ValleyNeighbours(cells, lastOp) :
           ~cells[k].isRuin /\ cells[k].elevation = lastOp.args[3] + 1

\* the operations that reset the grid, the marker or the overlay
ResetOps == {"reset", "Ball.reset", "FogSystem.reset", "coverAll"}

\* the calls a timer or a frame scheduled earlier makes
LateOps == {"applyErosion", "applyImpulse", "update", "reveal", "setVisibility"}

\* elevations in [-3, 3], one overlay entry per grid cell, overlay level and
\* mirror flag in agreement, buffers within capacity
CoreInvariants(g, vis, b) ==
    /\ \A k \in DOMAIN g : InRange(g[k].elevation)
    /\ DOMAIN vis = DOMAIN g
    /\ \A k \in DOMAIN g : g[k].isRevealed <=> isRevealed(vis, k[1], k[2])
    /\ Len(b.trail) <= TRAIL_LENGTH
    /\ Len(b.positionHistory) <= historyMaxLength

\* C27: a call scheduled earlier (the delayed setVisibility of an animated
\* reveal, an erosion tick, an applyImpulse, an update) that fires after
\* Grid.reset(), Ball.reset(), FogSystem.reset() or coverAll() completes
\* without error, and afterwards the elevations are in [-3, 3], the overlay
\* has one entry per grid cell, overlay level and isRevealed agree and the
\* buffers are within capacity.
C27_LateCallHarmless ==
    [][(lastOp.op \in ResetOps /\ lastOp'.op \in LateOps) =>
          /\ lastOp'.err = NoError
          /\ CoreInvariants(cells', visibility', ball')]_vars

\* C28: in Act 1, under every interleaving of clicks and animation frames
\* (auto-roll and slide-back included), Ball.moveTo is never invoked while
\* isMovingDiscrete() is true.
C28_MoveToOnlyAtRest ==
    lastOp.op \in {"_handleHexClick", "_update"} =>
        \A i \in 1 .. Len(lastOp.ret) : ~lastOp.ret[i]

\* C28 witness: after a click had moved the ball, a frame's auto-roll or
\* slide-back invoked moveTo, and the ball is moving again.
C28_Witness ==
    /\ lastOp.op = "_update"
    /\ lastOp.ret = <<FALSE>>
    /\ act1.totalNudges > 0
    /\ isMovingDiscrete(ball)

\* an update that runs the continuous-mode step to its integration
Integrates == lastOp'.op = "update" /\ ~ball.isInRuin /\ ~ball.isDiscreteMode /\ ~OnRuin

Metrics(b) == <<b.oscillationAmplitude, b.recoveryRate, b.distanceFromEquilibrium>>

\* an update that reaches _updateMetrics
ReachesMetrics ==
    /\ lastOp'.op = "update"
    /\ ~ball.isInRuin
    /\ ball.isDiscreteMode \/ ~OnRuin

\* the ball with everything older than the last METRIC_SAMPLES recorded
\* positions forgotten
Recent(b) ==
    [b EXCEPT !.positionHistory =
        [i \in 1 .. Min(METRIC_SAMPLES, Len(@)) |->
            @[Len(@) - Min(METRIC_SAMPLES, Len(@)) + i]]]

\* the ball with another of the reference points moveToHex can record
OtherReference(b) ==
    {[b EXCEPT !.equilibriumPosition =
          Point(hexToPixel(sideLength, k[1], k[2])[1],
                hexToPixel(sideLength, k[1], k[2])[2])] : k \in DOMAIN cells}

\* C30: while the history has fewer than 30 entries an update leaves
\* oscillationAmplitude, recoveryRate and distanceFromEquilibrium unchanged,
\* and from the 30th sample on the three reflect only the last 30 recorded
\* positions and the current velocity: a ball that agrees on those has the
\* same three metrics.
C30_MetricsFromWindowAndVelocity ==
    [][ReachesMetrics =>
          IF Len(ball'.positionHistory) < METRIC_SAMPLES
          THEN Metrics(ball') = Metrics(ball)
          ELSE \A b \in {Recent(ball')} \cup OtherReference(ball') :
                   Metrics(updateMetrics(b)) = Metrics(ball')]_vars

\* C30 as amended: while the history has fewer than 30 entries an update
\* leaves the three metrics unchanged, and from the 30th sample on
\* oscillationAmplitude and recoveryRate reflect only the last 30 recorded
\* positions and the current velocity, and distanceFromEquilibrium is the
\* distance of the last recorded position from the recorded reference point.
C30_MetricsAmended ==
    [][ReachesMetrics =>
          IF Len(ball'.positionHistory) < METRIC_SAMPLES
          THEN Metrics(ball') = Metrics(ball)
          ELSE /\ Metrics(updateMetrics(Recent(ball'))) = Metrics(ball')
               /\ \A b \in OtherReference(ball') :
                      /\ updateMetrics(b).oscillationAmplitude =
                             ball'.oscillationAmplitude
                      /\ updateMetrics(b).recoveryRate = ball'.recoveryRate
               /\ LET last == ball'.positionHistory[Len(ball'.positionHistory)]
                      ref == ball'.equilibriumPosition
                  IN  ball'.distanceFromEquilibrium =
                          ISqrt(Hypot2(last.x - ref.x, last.y - ref.y))]_vars

\* C30 witness: an update recomputed the metrics of a moving ball whose
\* history is longer than 30 entries and whose last 30 positions are not all
\* the same.
C30_Witness ==
    /\ lastOp.op = "update"
    /\ Len(ball.positionHistory) > METRIC_SAMPLES
    /\ ball.oscillationAmplitude > 0
    /\ ball.recoveryRate < FX
    /\ ball.distanceFromEquilibrium > 0
    /\ ball.positionHistory[1] # ball.positionHistory[2]

\* C31: after Ball.reset(q, r), issued in any state, also while a discrete
\* move is in progress, the marker is at the centre of cell (q, r) with zero
\* velocity, empty trail and history, not terminal, and with no discrete move
\* pending.
C31_ResetRebindsCompletely ==
    [][lastOp'.op = "Ball.reset" =>
          /\ Position(ball') =
                 hexToPixel(sideLength, lastOp'.args[1], lastOp'.args[2])
          /\ Velocity(ball') = Zero2
          /\ ball'.trail = <<>>
          /\ ball'.positionHistory = <<>>
          /\ ~ball'.isInRuin
          /\ ~isMovingDiscrete(ball')]_vars

\* C32: every started discrete move eventually finishes: once moveTo has been
\* called and update is called on every frame while the clock advances,
\* eventually isMovingDiscrete() is false with the marker at the target, in
\* every marker state in which moveTo can be called (continuous mode and the
\* terminal state included).
C32_MoveEventuallyFinishes ==
    \A k \in MoveTargets :
        (lastOp.op = "moveTo" /\ lastOp.args[1] = k[1] /\ lastOp.args[2] = k[2])
            ~> (~isMovingDiscrete(ball)
                    /\ Position(ball) = hexToPixel(sideLength, k[1], k[2]))

\* the cell a click lands on and the cell the ball is in when it is clicked
Clicked == getHexAtPixel(cells, sideLength, lastOp'.args[1], lastOp'.args[2])

Occupied == getCurrentHex(ball, cells, sideLength)

Counters(a) == <<a.totalNudges, a.nudgesIn, a.nudgesOut>>

\* a click that passes the tests of _handleHexClick
Accepted ==
    /\ ~isMovingDiscrete(ball)
    /\ Clicked # Null
    /\ Occupied # Null
    /\ <<Clicked.col, Clicked.row>>
           \in SeqToSet(getNeighbors(cells, Occupied.col, Occupied.row))

\* C36: a click in Act 1 starts a move only to a cell adjacent to the ball's
\* cell; a click on a non-adjacent cell, on the ball's own cell, outside the
\* grid, or while the ball is moving changes neither the ball nor the nudge
\* counters; totalNudges = nudgesIn + nudgesOut always, and the counters grow
\* only by an accepted click whose source or target cell is below 0.
C36_ClickMovesToAdjacentOnly ==
    /\ [](act1.totalNudges = act1.nudgesIn + act1.nudgesOut)
    /\ [][/\ lastOp'.op # "_handleHexClick" => Counters(act1') = Counters(act1)
          /\ (lastOp'.op = "_handleHexClick" /\ ~Accepted) =>
                 /\ ball' = ball
                 /\ Counters(act1') = Counters(act1)
          /\ (lastOp'.op = "_handleHexClick" /\ Accepted) =>
                 /\ Position(ball') = Position(ball)
                 /\ ball'.target =
                        Point(hexToPixel(sideLength, Clicked.col, Clicked.row)[1],
                              hexToPixel(sideLength, Clicked.col, Clicked.row)[2])
                 /\ act1'.totalNudges = act1.totalNudges +
                        (IF Occupied.elevation < 0 \/ Clicked.elevation < 0
                         THEN 1 ELSE 0)]_vars

\* C36 witness: a click out of the valley was accepted and counted, after the
\* clicks into it, and the ball is on its way.
C36_Witness ==
    /\ lastOp.op = "_handleHexClick"
    /\ lastOp.ret = <<FALSE>>
    /\ isMovingDiscrete(ball)
    /\ act1.nudgesIn > 0
    /\ act1.nudgesOut > 0

\* after the frame the ball is at rest on a cell of elevation e
RestsAt(e) ==
    /\ lastOp'.op = "_update"
    /\ ~isMovingDiscrete(ball')
    /\ getCurrentHex(ball', cells', sideLength) # Null
    /\ getCurrentHex(ball', cells', sideLength).elevation = e

\* C37: between resets the phase of Act 1 only moves forward: it goes from 1
\* to 2 exactly when a resting ball occupies a cell of elevation -3; the act
\* completes (isComplete becomes true and onComplete is called, exactly once)
\* exactly when in phase 2 a resting ball occupies a cell of elevation 0; the
\* phase never returns from 2 to 1 without reset(); isComplete implies
\* ballInValley and ballEscaped.
C37_PhaseOnlyMovesForward ==
    /\ [](act1.isComplete => act1.ballInValley /\ act1.ballEscaped)
    /\ [](act1.completed = IF act1.isComplete THEN 1 ELSE 0)
    /\ [][/\ (act1.phase = 1 /\ act1'.phase = 2)
                 <=> (act1.phase = 1 /\ RestsAt(-3))
          /\ (~act1.isComplete /\ act1'.isComplete)
                 <=> (~act1.isComplete /\ act1.phase = 2 /\ RestsAt(0))
          /\ (act1.phase = 2 /\ act1'.phase = 1) => lastOp'.op = "Act1.reset"
          /\ (act1.isComplete /\ ~act1'.isComplete) => lastOp'.op = "Act1.reset"
         ]_vars

\* C37 witness: the act is complete, and frames have run since it completed.
C37_Witness ==
    /\ act1.isComplete
    /\ act1.phase = 2
    /\ lastOp.op = "_update"
    /\ getCurrentHex(ball, cells, sideLength).elevation < 0

\* a frame whose update left the ball at rest, before the automatic moves are
\* looked at
RestsInFrame ==
    /\ lastOp'.op = "_update"
    /\ ~isMovingDiscrete(ball') \/ lastOp'.ret # <<>>

\* the frame started an automatic move
AutoMoved == lastOp'.op = "_update" /\ lastOp'.ret # <<>>

\* the cell under the ball after the frame, and the cell it is sent to
Under == getCurrentHex(ball', cells, sideLength)

SentTo == getHexAtPixel(cells, sideLength, ball'.target.x, ball'.target.y)

LowerNeighbours(hex) ==
    {k \in SeqToSet(getNeighbors(cells, hex.col, hex.row)) :
        cells[k].elevation < hex.elevation}

\* C38: with no click in between, a ball at rest on a slope cell (elevation
\* below 0) that has a strictly lower neighbour is moved, once the auto-roll
\* delay has passed since the last move, to its lowest neighbour; every
\* automatic move strictly lowers the occupied elevation, so the ball comes to
\* rest on a cell of elevation 0 or more, or with no strictly lower
\* neighbour, and from such a cell no automatic move starts.
C38_AutoRollDescendsAndStops ==
    [][/\ AutoMoved =>
              /\ Under.elevation < 0
              /\ SentTo.elevation < Under.elevation
              /\ \A k \in LowerNeighbours(Under) :
                     SentTo.elevation <= cells[k].elevation
       /\ (/\ RestsInFrame
           /\ Under.elevation < 0
           /\ LowerNeighbours(Under) # {}
           /\ now' - act1.lastMoveTime >= AUTO_ROLL_DELAY) => AutoMoved
      ]_vars

\* C39: after an uphill click onto a slope cell the ball is not moved
\* automatically while the transient timer (1200 ms of frame time, counted
\* once the auto-roll delay has passed) is still positive; it slides back to a
\* lower neighbour only on the frame that takes the timer to 0, and an
\* accepted click before then, which ends or restarts the transient state,
\* prevents that slide-back.
C39_TransientHoldsTheBall ==
    [][(AutoMoved /\ act1.isTransient) =>
           act1.transientTimer - lastOp'.args[1] <= 0]_vars

\* the handler of the step applied a shock or an erosion; it ran _completeAct
Shocked == \E i \in 1 .. Len(lastOp'.ret) : lastOp'.ret[i] \in {"shock", "erosion"}

RanCompleteAct == \E i \in 1 .. Len(lastOp'.ret) : lastOp'.ret[i] = "complete"

Picked == getHexAtPixel(cells, sideLength, lastOp'.args[1], lastOp'.args[2])

\* the canvas click of the step applies the selected action, which is name
Applies(name) ==
    /\ lastOp'.op = "_handleHexSelection"
    /\ act5.selectedAction = name
    /\ Picked # Null
    /\ name = "scout" \/ ~Picked.isRuin
    /\ act5.resiliencePoints >= actionCost(name)

\* C34: in Act 5 an applied 'deepen' on a selected cell that is not terminal
\* lowers the cell's elevation by 1, clamped at -3, and deducts exactly its
\* cost 3; points are deducted only when the effect was applied; always
\* resiliencePoints >= 0 and resiliencePoints + 3*deepen + 5*widen + 2*scout
\* + 8*barrier = 50.
C34_DeepenLowersAndCosts ==
    /\ [](/\ act5.resiliencePoints >= 0
          /\ act5.resiliencePoints
                 + 3 * act5.actionsUsed["deepen"] + 5 * act5.actionsUsed["widen"]
                 + 2 * act5.actionsUsed["scout"] + 8 * act5.actionsUsed["barrier"]
                 = 50)
    /\ [][/\ Applies("deepen") =>
                 /\ cells'[<<Picked.col, Picked.row>>].elevation
                        = Max(ELEV_MIN, Picked.elevation - 1)
                 /\ act5'.resiliencePoints = act5.resiliencePoints - 3
          /\ act5'.resiliencePoints < act5.resiliencePoints =>
                 \E name \in ActionNames : Applies(name)]_vars

\* C35: the player's actions of Act 5 change the terrain, the fog or the
\* points only while the phase is 'preparation': once the phase is 'crisis'
\* no action is selected and none is applied.
C35_ActionsOnlyInPreparation ==
    [][(lastOp'.op \in {"_selectAction", "_handleHexSelection"}
            /\ act5.phase # "preparation") =>
           /\ cells' = cells
           /\ visibility' = visibility
           /\ act5'.resiliencePoints = act5.resiliencePoints
           /\ act5'.actionsUsed = act5.actionsUsed
           /\ act5'.selectedAction = act5.selectedAction]_vars

\* C40: at most one act is running at any time (an animation frame requested
\* or an erosion timer live), and it is currentAct; after _restart, which
\* sets currentAct to 0, no act is running.
C40_OnlyCurrentActRuns ==
    /\ Cardinality(app.running) <= 1
    /\ app.running \subseteq {app.currentAct}
    /\ (lastOp.op = "_restart" /\ lastOp.err = NoError) =>
           app.currentAct = 0 /\ app.running = {}

====
